---------------------------- MODULE Spec2Model ----------------------------
(***************************************************************************)
(* Alert evaluation and dispatch engine of Repo Doctor (src/lib/alerts.ts) *)
(* and the route handlers that call it.                                    *)
(*                                                                         *)
(* Time is in milliseconds, as in the source (Date.getTime()).  ISO date   *)
(* strings are represented by the millisecond value Date.parse gives for   *)
(* them.  A nullable value is a sequence of length 0 (null/undefined) or 1.*)
(* Requests are served one after the other; a call reads the clock once.   *)
(***************************************************************************)
EXTENDS Integers, Sequences, FiniteSets, TLC

VARIABLES
    env,             \* transport configuration read at process start (lib/env.ts)
    alert_settings,  \* the alert_settings collection: repo -> stored document
    alert_deliveries,\* the alert_deliveries collection, in insertion order
    clock,           \* the wall clock, in ms
    last,            \* what the last dispatchRepoAlerts call did and returned
    sanitized,       \* a sanitizeSettings call: its input and what it returned
    evaluated,       \* a GET /api/alerts request and its response
    cron,            \* a POST /api/alerts/cron request and its response
    overlapping,     \* dispatchRepoAlerts calls under way at the same time
    saved,           \* a saveAlertSettings call: its input and what it returned
    stale            \* a stale scan, or a getStaleAction call, and what it did

vars == <<env, alert_settings, alert_deliveries, clock, last,
          sanitized, evaluated, cron, overlapping, saved,
          stale>>

None == <<>>
Some(x) == <<x>>

(***************************** program constants ***************************)
MS_PER_DAY == 86400000
MS_PER_HOUR == 3600000
PER_PAGE == 100
MAX_OPEN_PR_PAGES == 5
MAX_STALE_SCAN_PAGES == 10
MAX_STUCK_SAMPLES == 8
CRON_REPO_LIMIT == 150

(********************************* bounds **********************************)
\* the clock runs for at most this many hours after ClockStart
MaxElapsedHours == 1
\* the delivery history holds at most this many events
MaxDeliveries == 2
\* numbers are tried up to this many halves outside a setting's range
Beyond == 2
\* a repository has at most this many open pull requests more than the
\* pages of the pull request loop hold
ExtraPulls == 1
\* at most this many dispatchRepoAlerts calls overlap
MaxCalls == 2
\* a repository has at most this many recently updated issues more than the
\* pages of the issue loop hold
ExtraIssues == 1

Repos == {"acme/api", "acme/web"}
AlertIds == <<"NO_COMMITS", "PR_STUCK", "STALE_SPIKE">>
Channels == {"auto", "webhook", "slack", "discord"}
StaleLabel == "stale"

\* first clock value: late enough for every timestamp of the lookback window
\* (2 * staleWindowDays days) to be positive
ClockStart == 15 * MS_PER_DAY
TickSteps == {MS_PER_HOUR - 1, MS_PER_HOUR}

Min(a, b) == IF a <= b THEN a ELSE b
Max(a, b) == IF a >= b THEN a ELSE b

(******************************** settings *********************************)
DEFAULT_ALERT_SETTINGS ==
    [enabled |-> TRUE,
     cooldownHours |-> 24,
     rules |-> [noCommitDays |-> 7, prStuckDays |-> 3,
                staleSpikeCount |-> 5, staleWindowDays |-> 7]]

(* JavaScript values, as far as the settings code tells them apart.  A       *)
(* finite number is held in halves (halves = 2 * the number), so that x.5   *)
(* exists and Math.round has something to round.                           *)
Num(halves) == [type |-> "number", class |-> "finite", halves |-> halves]
Whole(n) == Num(2 * n)
NaN == [type |-> "number", class |-> "NaN", halves |-> 0]
PosInfinity == [type |-> "number", class |-> "+Infinity", halves |-> 0]
NegInfinity == [type |-> "number", class |-> "-Infinity", halves |-> 0]
Bool(b) == [type |-> "boolean", bool |-> b]
Text(s) == [type |-> "string", text |-> s]

\* Math.round of a finite number: the nearest integer, x.5 going up
MathRound(number) == (number.halves + 1) \div 2

\* faulty variant: the upper end of the range is not applied
clampNumber_noUpperEnd(value, min, max, fallback) ==
    IF value = None THEN fallback
    ELSE IF value[1].type # "number" \/ value[1].class = "NaN" THEN fallback
    ELSE IF value[1].class = "+Infinity" THEN max + 1
    ELSE IF value[1].class = "-Infinity" THEN min
    ELSE Max(min, MathRound(value[1]))

\* value: None (the property is absent) or Some(JavaScript value)
clampNumber(value, min, max, fallback) ==
    IF value = None THEN fallback
    ELSE IF value[1].type # "number" \/ value[1].class = "NaN" THEN fallback
    ELSE IF value[1].class = "+Infinity" THEN max
    ELSE IF value[1].class = "-Infinity" THEN min
    ELSE Min(max, Max(min, MathRound(value[1])))

\* faulty variant: the two day thresholds read each other's source field
sanitizeSettings_swappedDays(input) ==
    LET source == IF input = None
                  THEN [enabled |-> None, cooldownHours |-> None, rules |-> None]
                  ELSE input[1]
        sourceRules == IF source.rules = None
                       THEN [noCommitDays |-> None, prStuckDays |-> None,
                             staleSpikeCount |-> None, staleWindowDays |-> None]
                       ELSE source.rules[1]
    IN [enabled |-> IF source.enabled = None \/ source.enabled[1].type # "boolean"
                    THEN DEFAULT_ALERT_SETTINGS.enabled
                    ELSE source.enabled[1].bool,
        cooldownHours |-> clampNumber(source.cooldownHours, 1, 168,
                                      DEFAULT_ALERT_SETTINGS.cooldownHours),
        rules |-> [noCommitDays |-> clampNumber(sourceRules.prStuckDays, 1, 180,
                                     DEFAULT_ALERT_SETTINGS.rules.noCommitDays),
                   prStuckDays |-> clampNumber(sourceRules.noCommitDays, 1, 90,
                                     DEFAULT_ALERT_SETTINGS.rules.prStuckDays),
                   staleSpikeCount |-> clampNumber(sourceRules.staleSpikeCount, 1, 200,
                                     DEFAULT_ALERT_SETTINGS.rules.staleSpikeCount),
                   staleWindowDays |-> clampNumber(sourceRules.staleWindowDays, 1, 30,
                                     DEFAULT_ALERT_SETTINGS.rules.staleWindowDays)]]

\* input: None (null, undefined), or Some(object) whose properties are None
\* or Some(JavaScript value); rules is None or Some(object) in the same way
sanitizeSettings(input) ==
    LET source == IF input = None
                  THEN [enabled |-> None, cooldownHours |-> None, rules |-> None]
                  ELSE input[1]
        sourceRules == IF source.rules = None
                       THEN [noCommitDays |-> None, prStuckDays |-> None,
                             staleSpikeCount |-> None, staleWindowDays |-> None]
                       ELSE source.rules[1]
    IN [enabled |-> IF source.enabled = None \/ source.enabled[1].type # "boolean"
                    THEN DEFAULT_ALERT_SETTINGS.enabled
                    ELSE source.enabled[1].bool,
        cooldownHours |-> clampNumber(source.cooldownHours, 1, 168,
                                      DEFAULT_ALERT_SETTINGS.cooldownHours),
        rules |-> [noCommitDays |-> clampNumber(sourceRules.noCommitDays, 1, 180,
                                     DEFAULT_ALERT_SETTINGS.rules.noCommitDays),
                   prStuckDays |-> clampNumber(sourceRules.prStuckDays, 1, 90,
                                     DEFAULT_ALERT_SETTINGS.rules.prStuckDays),
                   staleSpikeCount |-> clampNumber(sourceRules.staleSpikeCount, 1, 200,
                                     DEFAULT_ALERT_SETTINGS.rules.staleSpikeCount),
                   staleWindowDays |-> clampNumber(sourceRules.staleWindowDays, 1, 30,
                                     DEFAULT_ALERT_SETTINGS.rules.staleWindowDays)]]

\* an AlertSettings object as the object a caller or the store hands back in
settingsObject(settings) ==
    Some([enabled |-> Some(Bool(settings.enabled)),
          cooldownHours |-> Some(Whole(settings.cooldownHours)),
          rules |-> Some([noCommitDays |-> Some(Whole(settings.rules.noCommitDays)),
                          prStuckDays |-> Some(Whole(settings.rules.prStuckDays)),
                          staleSpikeCount |-> Some(Whole(settings.rules.staleSpikeCount)),
                          staleWindowDays |-> Some(Whole(settings.rules.staleWindowDays))])])

\* collection.findOne({ repo }) then sanitizeSettings(saved || undefined)
getAlertSettings(store, repo) ==
    sanitizeSettings(IF repo \in DOMAIN store THEN store[repo] ELSE None)


(******************************* evaluation ********************************)
\* the message of the error a rejected hosting API request carries
RequestError == "Request failed"

\* faulty variant: a started day counts as a whole one
daysSince_roundsUp(isoDate, now) == (now - isoDate + MS_PER_DAY - 1) \div MS_PER_DAY

\* Math.floor((now.getTime() - parsed) / MS_PER_DAY); \div rounds down
daysSince(isoDate, now) == (now - isoDate) \div MS_PER_DAY

\* date.setUTCDate(date.getUTCDate() - days), as an instant
isoDaysAgo(days, now) == now - days * MS_PER_DAY

\* `${repoParams.owner}/${repoParams.repo}`
getRepoKey(repoParams) == repoParams.owner \o "/" \o repoParams.repo

(* The repository texts requests and documents carry, as the runs of        *)
(* characters split and trim tell apart: a slash, a blank, or a run of      *)
(* other characters.                                                        *)
TextTokens ==
    ("acme/api" :> <<"acme", "/", "api">>)
    @@ ("acme/web" :> <<"acme", "/", "web">>)
    @@ ("acme / api" :> <<"acme", " ", "/", " ", "api">>)
    @@ ("acme" :> <<"acme">>)
    @@ ("acme/api/v2" :> <<"acme", "/", "api", "/", "v2">>)
    @@ ("acme/ " :> <<"acme", "/", " ">>)

\* String.prototype.split('/')
RECURSIVE split(_)
split(tokens) ==
    IF tokens = <<>> THEN << <<>> >>
    ELSE LET rest == split(Tail(tokens))
         IN IF Head(tokens) = "/" THEN << <<>> >> \o rest
            ELSE << <<Head(tokens)>> \o rest[1] >> \o Tail(rest)

\* String.prototype.trim()
RECURSIVE trim(_)
trim(tokens) ==
    IF tokens = <<>> THEN <<>>
    ELSE IF Head(tokens) = " " THEN trim(Tail(tokens))
    ELSE IF tokens[Len(tokens)] = " " THEN trim(SubSeq(tokens, 1, Len(tokens) - 1))
    ELSE tokens

\* the string the tokens spell
RECURSIVE spell(_)
spell(tokens) == IF tokens = <<>> THEN "" ELSE Head(tokens) \o spell(Tail(tokens))

\* parseRepoString of lib/github.ts and parseRepo of the cron route: the
\* same code
parseRepo(repo) ==
    LET pieces == split(TextTokens[repo])
        parts == [i \in 1..Len(pieces) |-> spell(trim(pieces[i]))]
    IN IF Len(parts) # 2 THEN None
       ELSE IF parts[1] = "" \/ parts[2] = "" THEN None
       ELSE Some([owner |-> parts[1], repo |-> parts[2]])

\* what the hosting API returns for page `page` of a list, per_page = PER_PAGE
PageOf(list, page) ==
    SubSeq(list, (page - 1) * PER_PAGE + 1, Min(page * PER_PAGE, Len(list)))

\* faulty variant: a pull request idle for exactly prStuckDays days is passed over
StuckOfPage_strict(pulls, prStuckDays, now) ==
    LET idle == SelectSeq(pulls, LAMBDA pull :
                    ~(daysSince(pull.updated_at, now) <= prStuckDays))
    IN [i \in 1..Len(idle) |->
            [number |-> idle[i].number,
             updatedAt |-> idle[i].updated_at,
             daysSinceUpdate |-> daysSince(idle[i].updated_at, now)]]

\* the pulls of one page that are idle for at least prStuckDays, in page order
StuckOfPage(pulls, prStuckDays, now) ==
    LET idle == SelectSeq(pulls, LAMBDA pull :
                    ~(daysSince(pull.updated_at, now) < prStuckDays))
    IN [i \in 1..Len(idle) |->
            [number |-> idle[i].number,
             updatedAt |-> idle[i].updated_at,
             daysSinceUpdate |-> daysSince(idle[i].updated_at, now)]]

RECURSIVE ScanPulls(_, _, _, _, _, _)

\* faulty variant: a rejected page request ends the loop like an empty page
ScanPulls_swallows(openPulls, failingPages, page, acc, prStuckDays, now) ==
    IF page > MAX_OPEN_PR_PAGES THEN acc
    ELSE IF page \in failingPages THEN [acc EXCEPT !.asked = Append(@, None)]
    ELSE LET pulls == PageOf(openPulls, page)
             asked == [acc EXCEPT !.asked = Append(@, Some(Len(pulls)))]
             next == [asked EXCEPT
                        !.count = @ + Len(pulls),
                        !.stuck = @ \o StuckOfPage(pulls, prStuckDays, now)]
         IN IF Len(pulls) = 0 THEN asked
            ELSE IF Len(pulls) < PER_PAGE THEN next
            ELSE ScanPulls(openPulls, failingPages, page + 1, next, prStuckDays, now)

\* the loop over pages of open pull requests; acc = [count, stuck, threw,
\* asked]; asked holds, per page request made, the number of items the page
\* returned, or None for a request that rejects.  A request for a page in
\* failingPages rejects, which ends the call
ScanPulls(openPulls, failingPages, page, acc, prStuckDays, now) ==
    IF page > MAX_OPEN_PR_PAGES THEN acc
    ELSE IF page \in failingPages
    THEN [acc EXCEPT !.threw = TRUE, !.asked = Append(@, None)]
    ELSE LET pulls == PageOf(openPulls, page)
             asked == [acc EXCEPT !.asked = Append(@, Some(Len(pulls)))]
             next == [asked EXCEPT
                        !.count = @ + Len(pulls),
                        !.stuck = @ \o StuckOfPage(pulls, prStuckDays, now)]
         IN IF Len(pulls) = 0 THEN asked
            ELSE IF Len(pulls) < PER_PAGE THEN next
            ELSE ScanPulls(openPulls, failingPages, page + 1, next, prStuckDays, now)

\* Array.prototype.sort with (a, b) => b.daysSinceUpdate - a.daysSinceUpdate:
\* a stable sort, most idle first: the entries with the largest
\* daysSinceUpdate in the order they were pushed, then those with the next
\* largest, and so on (days: the values of daysSinceUpdate still to place)
RECURSIVE MostIdleFirst(_, _)
MostIdleFirst(prs, days) ==
    IF days = {} THEN <<>>
    ELSE LET most == CHOOSE d \in days : \A e \in days : e <= d
         IN SelectSeq(prs, LAMBDA pr : pr.daysSinceUpdate = most)
            \o MostIdleFirst(prs, days \ {most})

\* faulty variant: the comparison is a.daysSinceUpdate - b.daysSinceUpdate
SortByIdleDesc_ascending(prs) ==
    LET sorted == MostIdleFirst(prs, {prs[i].daysSinceUpdate : i \in 1..Len(prs)})
    IN [i \in 1..Len(sorted) |-> sorted[Len(sorted) + 1 - i]]

SortByIdleDesc(prs) ==
    MostIdleFirst(prs, {prs[i].daysSinceUpdate : i \in 1..Len(prs)})

\* faulty variant: issues that are pull requests are counted too
CountPage_countsPulls(issues, acc, currentWindowStartMs, previousWindowStartMs) ==
    LET labelled == SelectSeq(issues, LAMBDA issue : StaleLabel \in issue.labels)
        inCurrent == SelectSeq(labelled, LAMBDA issue :
                        issue.updated_at >= currentWindowStartMs)
        inPrevious == SelectSeq(labelled, LAMBDA issue :
                        /\ ~(issue.updated_at >= currentWindowStartMs)
                        /\ issue.updated_at >= previousWindowStartMs)
    IN [acc EXCEPT !.current = @ + Len(inCurrent),
                   !.previous = @ + Len(inPrevious)]

\* the window counts one page of issues adds to acc.current and
\* acc.previous: an issue that is a pull request or lacks the stale label
\* is passed over; any other adds to the current window when updated at or
\* after its start, else to the previous window when updated at or after
\* that one's start
CountPage(issues, acc, currentWindowStartMs, previousWindowStartMs) ==
    LET labelled == SelectSeq(issues, LAMBDA issue :
                        ~issue.pull_request /\ StaleLabel \in issue.labels)
        inCurrent == SelectSeq(labelled, LAMBDA issue :
                        issue.updated_at >= currentWindowStartMs)
        inPrevious == SelectSeq(labelled, LAMBDA issue :
                        /\ ~(issue.updated_at >= currentWindowStartMs)
                        /\ issue.updated_at >= previousWindowStartMs)
    IN [acc EXCEPT !.current = @ + Len(inCurrent),
                   !.previous = @ + Len(inPrevious)]

RECURSIVE ScanIssues(_, _, _, _, _, _)

\* faulty variant: the loop has no page ceiling
ScanIssues_noCeiling(sinceIssues, failingPages, page, acc, currentWindowStartMs, previousWindowStartMs) ==
    IF page \in failingPages
    THEN [acc EXCEPT !.threw = TRUE, !.asked = Append(@, None)]
    ELSE LET issues == PageOf(sinceIssues, page)
             asked == [acc EXCEPT !.asked = Append(@, Some(Len(issues)))]
             next == CountPage(issues, asked, currentWindowStartMs, previousWindowStartMs)
         IN IF Len(issues) = 0 THEN asked
            ELSE IF Len(issues) < PER_PAGE THEN next
            ELSE ScanIssues(sinceIssues, failingPages, page + 1, next,
                            currentWindowStartMs, previousWindowStartMs)

\* the loop over pages of issues updated since previousWindowStartIso;
\* acc = [current, previous, threw, asked], asked as in ScanPulls
ScanIssues(sinceIssues, failingPages, page, acc, currentWindowStartMs, previousWindowStartMs) ==
    IF page > MAX_STALE_SCAN_PAGES THEN acc
    ELSE IF page \in failingPages
    THEN [acc EXCEPT !.threw = TRUE, !.asked = Append(@, None)]
    ELSE LET issues == PageOf(sinceIssues, page)
             asked == [acc EXCEPT !.asked = Append(@, Some(Len(issues)))]
             next == CountPage(issues, asked, currentWindowStartMs, previousWindowStartMs)
         IN IF Len(issues) = 0 THEN asked
            ELSE IF Len(issues) < PER_PAGE THEN next
            ELSE ScanIssues(sinceIssues, failingPages, page + 1, next,
                            currentWindowStartMs, previousWindowStartMs)

\* faulty variant: the count starts at 0, and stays 0 when the search fails
openStaleCount_zero(search) == IF search = None THEN Some(0) ELSE search

\* let staleOpenNow = null; try { staleOpenNow = data.total_count } catch { }
openStaleCount(search) == IF search = None THEN None ELSE search

\* faulty variant: a plateau counts as a spike
staleSpikeActive_plateau(staleCurrentWindow, stalePreviousWindow, settings) ==
    /\ staleCurrentWindow >= settings.rules.staleSpikeCount
    /\ staleCurrentWindow >= stalePreviousWindow

staleSpikeActive(staleCurrentWindow, stalePreviousWindow, settings) ==
    /\ staleCurrentWindow >= settings.rules.staleSpikeCount
    /\ staleCurrentWindow > stalePreviousWindow

\* faulty variant: the filter keeps the states that are not active
filterActive_inverted(alerts) == SelectSeq(alerts, LAMBDA alert : ~alert.active)

\* alerts.filter(alert => alert.active)
filterActive(alerts) == SelectSeq(alerts, LAMBDA alert : alert.active)

\* activity: what the hosting API holds for the repository at the call:
\*   commits: latest first, each [author, committer] a nullable date
\*   pulls:   open pull requests, oldest update first
\*   issues:  issues of every state, newest update first
\*   search:  the open-stale count, None when the search call fails
\*   failing: the other requests that reject: the commit list (a boolean),
\*            pages of the pull list, pages of the issue list
\* The result is [threw |-> Some(error)] when the call rejects, and the
\* evaluation with threw |-> None when it returns; requests holds the page
\* requests the two loops made (see ScanPulls), which no caller sees.
evaluateRepoAlerts(repoParams, settings, activity, now) ==
    LET repo == getRepoKey(repoParams)
        latestCommits == SubSeq(activity.commits, 1, Min(1, Len(activity.commits)))
        lastCommitAt ==
            IF latestCommits = <<>> THEN None
            ELSE IF latestCommits[1].author # None THEN latestCommits[1].author
            ELSE latestCommits[1].committer
        daysSinceLastCommit ==
            IF lastCommitAt = None THEN None
            ELSE Some(daysSince(lastCommitAt[1], now))
        noCommitActive ==
            IF daysSinceLastCommit = None THEN TRUE
            ELSE daysSinceLastCommit[1] >= settings.rules.noCommitDays
        scanned == ScanPulls(activity.pulls, activity.failing.pulls, 1,
                             [count |-> 0, stuck |-> <<>>, threw |-> FALSE,
                              asked |-> <<>>],
                             settings.rules.prStuckDays, now)
        openPrCount == scanned.count
        stuckPullRequests == SortByIdleDesc(scanned.stuck)
        stuckPrCount == Len(stuckPullRequests)
        staleWindowDays == settings.rules.staleWindowDays
        currentWindowStartMs == now - (staleWindowDays * MS_PER_DAY)
        previousWindowStartIso == isoDaysAgo(staleWindowDays * 2, now)
        previousWindowStartMs == previousWindowStartIso
        sinceIssues == SelectSeq(activity.issues,
                           LAMBDA issue : issue.updated_at >= previousWindowStartIso)
        windows == ScanIssues(sinceIssues, activity.failing.issues, 1,
                              [current |-> 0, previous |-> 0, threw |-> FALSE,
                               asked |-> <<>>],
                              currentWindowStartMs, previousWindowStartMs)
        staleCurrentWindow == windows.current
        stalePreviousWindow == windows.previous
        staleOpenNow == openStaleCount(activity.search)
        spikeActive == staleSpikeActive(staleCurrentWindow, stalePreviousWindow, settings)
        alerts ==
            << [id |-> "NO_COMMITS", severity |-> "HIGH", active |-> noCommitActive,
                threshold |-> settings.rules.noCommitDays,
                value |-> daysSinceLastCommit],
               [id |-> "PR_STUCK", severity |-> "MEDIUM", active |-> stuckPrCount > 0,
                threshold |-> settings.rules.prStuckDays,
                value |-> Some(stuckPrCount)],
               [id |-> "STALE_SPIKE", severity |-> "MEDIUM", active |-> spikeActive,
                threshold |-> settings.rules.staleSpikeCount,
                value |-> Some(staleCurrentWindow)] >>
        activeAlerts == filterActive(alerts)
        requests ==
            [pulls |-> IF activity.failing.commits THEN <<>> ELSE scanned.asked,
             issues |-> IF activity.failing.commits \/ scanned.threw THEN <<>>
                        ELSE windows.asked]
    IN IF activity.failing.commits \/ scanned.threw \/ windows.threw
       THEN [threw |-> Some(RequestError), requests |-> requests]
       ELSE
       [threw |-> None,
        requests |-> requests,
        repo |-> repo,
        generatedAt |-> now,
        settings |-> settings,
        alerts |-> alerts,
        activeAlerts |-> activeAlerts,
        metrics |-> [lastCommitAt |-> lastCommitAt,
                     daysSinceLastCommit |-> daysSinceLastCommit,
                     totalOpenPrs |-> openPrCount,
                     stuckPrs |-> stuckPrCount,
                     staleCurrentWindow |-> staleCurrentWindow,
                     stalePreviousWindow |-> stalePreviousWindow,
                     staleOpenNow |-> staleOpenNow],
        samples |-> [stuckPullRequests |->
                        SubSeq(stuckPullRequests, 1,
                               Min(MAX_STUCK_SAMPLES, Len(stuckPullRequests)))]]

(***************************** delivery target ******************************)
\* faulty variant: channel auto returns the generic webhook without looking whether
\* it is configured
resolveDeliveryTarget_autoUnchecked(channel, e) ==
    IF channel = "slack" /\ e.ALERT_SLACK_WEBHOOK_URL # None
    THEN Some([kind |-> "slack", url |-> e.ALERT_SLACK_WEBHOOK_URL[1]])
    ELSE IF channel = "discord" /\ e.ALERT_DISCORD_WEBHOOK_URL # None
    THEN Some([kind |-> "discord", url |-> e.ALERT_DISCORD_WEBHOOK_URL[1]])
    ELSE IF channel = "webhook" /\ e.ALERT_WEBHOOK_URL # None
    THEN Some([kind |-> "webhook", url |-> e.ALERT_WEBHOOK_URL[1]])
    ELSE IF channel = "auto"
    THEN Some([kind |-> "webhook",
               url |-> IF e.ALERT_WEBHOOK_URL # None THEN e.ALERT_WEBHOOK_URL[1]
                       ELSE "undefined"])
    ELSE None

\* faulty variant: channel auto looks at Slack before the generic webhook
resolveDeliveryTarget_slackFirst(channel, e) ==
    IF channel = "slack" /\ e.ALERT_SLACK_WEBHOOK_URL # None
    THEN Some([kind |-> "slack", url |-> e.ALERT_SLACK_WEBHOOK_URL[1]])
    ELSE IF channel = "discord" /\ e.ALERT_DISCORD_WEBHOOK_URL # None
    THEN Some([kind |-> "discord", url |-> e.ALERT_DISCORD_WEBHOOK_URL[1]])
    ELSE IF channel = "webhook" /\ e.ALERT_WEBHOOK_URL # None
    THEN Some([kind |-> "webhook", url |-> e.ALERT_WEBHOOK_URL[1]])
    ELSE IF channel = "auto" /\ e.ALERT_SLACK_WEBHOOK_URL # None
    THEN Some([kind |-> "slack", url |-> e.ALERT_SLACK_WEBHOOK_URL[1]])
    ELSE IF channel = "auto" /\ e.ALERT_WEBHOOK_URL # None
    THEN Some([kind |-> "webhook", url |-> e.ALERT_WEBHOOK_URL[1]])
    ELSE IF channel = "auto" /\ e.ALERT_DISCORD_WEBHOOK_URL # None
    THEN Some([kind |-> "discord", url |-> e.ALERT_DISCORD_WEBHOOK_URL[1]])
    ELSE None

\* faulty variant: an explicit channel that is not configured falls through to the
\* order of channel auto
resolveDeliveryTarget_fallsBack(channel, e) ==
    IF channel = "slack" /\ e.ALERT_SLACK_WEBHOOK_URL # None
    THEN Some([kind |-> "slack", url |-> e.ALERT_SLACK_WEBHOOK_URL[1]])
    ELSE IF channel = "discord" /\ e.ALERT_DISCORD_WEBHOOK_URL # None
    THEN Some([kind |-> "discord", url |-> e.ALERT_DISCORD_WEBHOOK_URL[1]])
    ELSE IF channel = "webhook" /\ e.ALERT_WEBHOOK_URL # None
    THEN Some([kind |-> "webhook", url |-> e.ALERT_WEBHOOK_URL[1]])
    ELSE IF e.ALERT_WEBHOOK_URL # None
    THEN Some([kind |-> "webhook", url |-> e.ALERT_WEBHOOK_URL[1]])
    ELSE IF e.ALERT_SLACK_WEBHOOK_URL # None
    THEN Some([kind |-> "slack", url |-> e.ALERT_SLACK_WEBHOOK_URL[1]])
    ELSE IF e.ALERT_DISCORD_WEBHOOK_URL # None
    THEN Some([kind |-> "discord", url |-> e.ALERT_DISCORD_WEBHOOK_URL[1]])
    ELSE None

\* e: the three optional endpoint URLs of lib/env.ts, each None or Some(url)
resolveDeliveryTarget(channel, e) ==
    IF channel = "slack" /\ e.ALERT_SLACK_WEBHOOK_URL # None
    THEN Some([kind |-> "slack", url |-> e.ALERT_SLACK_WEBHOOK_URL[1]])
    ELSE IF channel = "discord" /\ e.ALERT_DISCORD_WEBHOOK_URL # None
    THEN Some([kind |-> "discord", url |-> e.ALERT_DISCORD_WEBHOOK_URL[1]])
    ELSE IF channel = "webhook" /\ e.ALERT_WEBHOOK_URL # None
    THEN Some([kind |-> "webhook", url |-> e.ALERT_WEBHOOK_URL[1]])
    ELSE IF channel = "auto" /\ e.ALERT_WEBHOOK_URL # None
    THEN Some([kind |-> "webhook", url |-> e.ALERT_WEBHOOK_URL[1]])
    ELSE IF channel = "auto" /\ e.ALERT_SLACK_WEBHOOK_URL # None
    THEN Some([kind |-> "slack", url |-> e.ALERT_SLACK_WEBHOOK_URL[1]])
    ELSE IF channel = "auto" /\ e.ALERT_DISCORD_WEBHOOK_URL # None
    THEN Some([kind |-> "discord", url |-> e.ALERT_DISCORD_WEBHOOK_URL[1]])
    ELSE None

isAlertWebhookConfigured(e) == resolveDeliveryTarget("auto", e) # None

\* fetch(target.url, ...): responseOk is what the endpoint answers;
\* the result is the Error thrown, or None
sendWebhook(target, message, responseOk) ==
    IF ~responseOk THEN Some("Webhook delivery failed") ELSE None

\* the one transport call of a dispatch: where it goes, the body's format and
\* the rules the body covers
sendAlertPayload(target, evaluation, alertsToSend, responseOk) ==
    LET format == IF target.kind = "discord" THEN "embed" ELSE "text"
        message == [format |-> format,
                    repo |-> evaluation.repo,
                    rules |-> [i \in 1..Len(alertsToSend) |-> alertsToSend[i].id]]
    IN [url |-> target.url, kind |-> target.kind, message |-> message,
        threw |-> sendWebhook(target, message, responseOk)]

(********************************* dispatch *********************************)
DisabledReason == "Alerts are disabled for this repository."
NoActiveReason == "No active alerts to send."
CooldownReason == "All active alerts are in cooldown."
NotConfiguredError == "Alert webhook is not configured."

\* faulty variant: the query is built with repo and ruleId swapped, so nothing matches
findLastSent_swapped(deliveries, repo, ruleId) ==
    LET matching == {i \in 1..Len(deliveries) :
                        deliveries[i].repo = ruleId /\ deliveries[i].ruleId = repo}
    IN IF matching = {} THEN None
       ELSE Some(deliveries[CHOOSE i \in matching :
                    \A j \in matching : deliveries[i].sentAt >= deliveries[j].sentAt])

\* faulty variant: the query names the repository only, so the last event of
\* any rule is found
findLastSent_anyRule(deliveries, repo, ruleId) ==
    LET matching == {i \in 1..Len(deliveries) : deliveries[i].repo = repo}
    IN IF matching = {} THEN None
       ELSE Some(deliveries[CHOOSE i \in matching :
                    \A j \in matching : deliveries[i].sentAt >= deliveries[j].sentAt])

\* faulty variant: the query leaves out the events of forced sends
findLastSent_unforcedOnly(deliveries, repo, ruleId) ==
    LET matching == {i \in 1..Len(deliveries) :
                        /\ deliveries[i].repo = repo
                        /\ deliveries[i].ruleId = ruleId
                        /\ ~deliveries[i].force}
    IN IF matching = {} THEN None
       ELSE Some(deliveries[CHOOSE i \in matching :
                    \A j \in matching : deliveries[i].sentAt >= deliveries[j].sentAt])

\* deliveries.findOne({ repo, ruleId }, { sort: { sentAt: -1 } })
findLastSent(deliveries, repo, ruleId) ==
    LET matching == {i \in 1..Len(deliveries) :
                        deliveries[i].repo = repo /\ deliveries[i].ruleId = ruleId}
    IN IF matching = {} THEN None
       ELSE Some(deliveries[CHOOSE i \in matching :
                    \A j \in matching : deliveries[i].sentAt >= deliveries[j].sentAt])

\* lastSentMs && (now.getTime() - lastSentMs) < cooldownMs
inCooldown(lastSentMs, nowMs, cooldownMs) ==
    lastSentMs # 0 /\ (nowMs - lastSentMs) < cooldownMs

\* faulty variant: the cooldown is converted as minutes
cooldownMsOf_minutes(settings) == settings.cooldownHours * 60000

cooldownMsOf(settings) == settings.cooldownHours * MS_PER_HOUR

\* faulty variant: the loop looks up the last event for forced calls too
isSuppressed_ignoresForce(alert, force, deliveries, repo, nowMs, cooldownMs) ==
    LET lastSent == findLastSent(deliveries, repo, alert.id)
        lastSentMs == IF lastSent = None THEN 0 ELSE lastSent[1].sentAt
    IN inCooldown(lastSentMs, nowMs, cooldownMs)

\* the branch of the per-alert loop that suppresses the alert
isSuppressed(alert, force, deliveries, repo, nowMs, cooldownMs) ==
    LET lastSent == findLastSent(deliveries, repo, alert.id)
        lastSentMs == IF lastSent = None THEN 0 ELSE lastSent[1].sentAt
    IN ~force /\ inCooldown(lastSentMs, nowMs, cooldownMs)

\* faulty variant: the disabled check has its force test inverted
skipsDisabled_inverted(settings, force) == ~settings.enabled /\ force

skipsDisabled(settings, force) == ~settings.enabled /\ ~force

\* faulty variant: the check counts all alert states instead of the active ones
skipsNoActive_allAlerts(evaluation) == Len(evaluation.alerts) = 0

skipsNoActive(evaluation) == Len(evaluation.activeAlerts) = 0

idsOf(alerts) == [i \in 1..Len(alerts) |-> alerts[i].id]

\* faulty variant: one event per call, for the first rule sent
deliveryEvents_firstOnly(sendable, repo, now, target, force) ==
    [i \in 1..Min(1, Len(sendable)) |->
        [repo |-> repo, ruleId |-> sendable[i].id, severity |-> sendable[i].severity,
         sentAt |-> now, channel |-> target.kind, force |-> force]]

\* sendable.map(alert => ({ repo, ruleId, severity, sentAt, channel, force }))
deliveryEvents(sendable, repo, now, target, force) ==
    [i \in 1..Len(sendable) |->
        [repo |-> repo, ruleId |-> sendable[i].id, severity |-> sendable[i].severity,
         sentAt |-> now, channel |-> target.kind, force |-> force]]

\* a return without sending: { sent: false, reason, suppressed, sentAlerts: [] }
skipResult(reason, suppressed, evaluation) ==
    [outcome |-> "returned", sent |-> FALSE, reason |-> reason,
     suppressed |-> suppressed, sentAlerts |-> <<>>, channel |-> None,
     sentAt |-> None, error |-> None, sends |-> <<>>, events |-> <<>>,
     active |-> idsOf(evaluation.activeAlerts)]

\* the call ends with a thrown Error after the transport calls `calls`
throwResult(error, calls, evaluation) ==
    [outcome |-> "threw", sent |-> FALSE, reason |-> "",
     suppressed |-> <<>>, sentAlerts |-> <<>>, channel |-> None,
     sentAt |-> None, error |-> Some(error), sends |-> calls, events |-> <<>>,
     active |-> idsOf(evaluation.activeAlerts)]

\* faulty variant: the events are inserted before the transport call, so a failed
\* send leaves them behind
sendAndRecord_insertFirst(target, evaluation, sendable, suppressed, repo, now, force, responseOk) ==
    LET call == sendAlertPayload(target, evaluation, sendable, responseOk)
    IN IF call.threw # None
       THEN [throwResult(call.threw[1], <<call>>, evaluation)
                EXCEPT !.events = deliveryEvents(sendable, repo, now, target, force)]
       ELSE [outcome |-> "returned", sent |-> TRUE, reason |-> "",
             suppressed |-> suppressed, sentAlerts |-> idsOf(sendable),
             channel |-> Some(target.kind), sentAt |-> Some(now),
             error |-> None, sends |-> <<call>>,
             events |-> deliveryEvents(sendable, repo, now, target, force),
             active |-> idsOf(evaluation.activeAlerts)]

\* from the transport call on: a failed send throws before anything is
\* inserted; otherwise the events are inserted and the result returned
sendAndRecord(target, evaluation, sendable, suppressed, repo, now, force, responseOk) ==
    LET call == sendAlertPayload(target, evaluation, sendable, responseOk)
    IN IF call.threw # None THEN throwResult(call.threw[1], <<call>>, evaluation)
       ELSE [outcome |-> "returned", sent |-> TRUE, reason |-> "",
             suppressed |-> suppressed, sentAlerts |-> idsOf(sendable),
             channel |-> Some(target.kind), sentAt |-> Some(now),
             error |-> None, sends |-> <<call>>,
             events |-> deliveryEvents(sendable, repo, now, target, force),
             active |-> idsOf(evaluation.activeAlerts)]

\* the evaluation rejected: the call ends there with the same error
evaluationThrew(error) ==
    [outcome |-> "threw", sent |-> FALSE, reason |-> "",
     suppressed |-> <<>>, sentAlerts |-> <<>>, channel |-> None,
     sentAt |-> None, error |-> Some(error), sends |-> <<>>, events |-> <<>>,
     active |-> <<>>]

\* faulty variant: the target is resolved before the two skips are tested
dispatchRepoAlerts_resolvesFirst(args, activity, responseOk, deliveries, now, e) ==
    LET force == args.force
        repo == getRepoKey(args.repoParams)
        evaluation == evaluateRepoAlerts(args.repoParams, args.settings, activity, now)
        target == resolveDeliveryTarget(args.channel, e)
        cooldownMs == cooldownMsOf(args.settings)
        sendable == SelectSeq(evaluation.activeAlerts, LAMBDA alert :
                        ~isSuppressed(alert, force, deliveries, repo, now, cooldownMs))
        suppressed == idsOf(SelectSeq(evaluation.activeAlerts, LAMBDA alert :
                        isSuppressed(alert, force, deliveries, repo, now, cooldownMs)))
    IN IF evaluation.threw # None
       THEN evaluationThrew(evaluation.threw[1])
       ELSE IF target = None
       THEN throwResult(NotConfiguredError, <<>>, evaluation)
       ELSE IF skipsDisabled(args.settings, force)
       THEN skipResult(DisabledReason, <<>>, evaluation)
       ELSE IF skipsNoActive(evaluation)
       THEN skipResult(NoActiveReason, <<>>, evaluation)
       ELSE IF Len(sendable) = 0
       THEN skipResult(CooldownReason, suppressed, evaluation)
       ELSE sendAndRecord(target[1], evaluation, sendable, suppressed,
                          repo, now, force, responseOk)

\* The call as a whole.  The result holds what the call returns or throws
\* (outcome), the transport calls it made (sends) and the documents it
\* inserted (events).
dispatchRepoAlerts(args, activity, responseOk, deliveries, now, e) ==
    LET force == args.force
        channel == args.channel
        repo == getRepoKey(args.repoParams)
        evaluation == evaluateRepoAlerts(args.repoParams, args.settings, activity, now)
        target == resolveDeliveryTarget(channel, e)
        cooldownMs == cooldownMsOf(args.settings)
        sendable == SelectSeq(evaluation.activeAlerts, LAMBDA alert :
                        ~isSuppressed(alert, force, deliveries, repo, now, cooldownMs))
        suppressed == idsOf(SelectSeq(evaluation.activeAlerts, LAMBDA alert :
                        isSuppressed(alert, force, deliveries, repo, now, cooldownMs)))
    IN IF evaluation.threw # None
       THEN evaluationThrew(evaluation.threw[1])
       ELSE IF skipsDisabled(args.settings, force)
       THEN skipResult(DisabledReason, <<>>, evaluation)
       ELSE IF skipsNoActive(evaluation)
       THEN skipResult(NoActiveReason, <<>>, evaluation)
       ELSE IF target = None
       THEN throwResult(NotConfiguredError, <<>>, evaluation)
       ELSE IF Len(sendable) = 0
       THEN skipResult(CooldownReason, suppressed, evaluation)
       ELSE sendAndRecord(target[1], evaluation, sendable, suppressed,
                          repo, now, force, responseOk)

(***************************** inputs of a call *****************************)
EndpointUrls ==
    [ALERT_WEBHOOK_URL |-> "https://hooks.example/generic",
     ALERT_SLACK_WEBHOOK_URL |-> "https://hooks.slack.example/a",
     ALERT_DISCORD_WEBHOOK_URL |-> "https://discord.example/b"]

Environments ==
    {[k \in DOMAIN EndpointUrls |-> IF k \in set THEN Some(EndpointUrls[k]) ELSE None] :
        set \in SUBSET DOMAIN EndpointUrls}

storedDoc(enabled, cooldownHours) ==
    Some([enabled |-> Some(Bool(enabled)),
          cooldownHours |-> Some(Whole(cooldownHours)),
          rules |-> Some([noCommitDays |-> Some(Whole(7)),
                          prStuckDays |-> Some(Whole(3)),
                          staleSpikeCount |-> Some(Whole(5)),
                          staleWindowDays |-> Some(Whole(7))])])

\* the documents of the settings collection at process start
SettingsStores ==
    {[repo \in Repos |-> IF repo = "acme/api" THEN storedDoc(TRUE, 1)
                                               ELSE storedDoc(TRUE, 2)],
     [repo \in Repos |-> IF repo = "acme/api" THEN storedDoc(FALSE, 2)
                                               ELSE storedDoc(TRUE, 1)]}

\* no commit at all, or a commit one day old
CommitLists(now) ==
    {<<>>, <<[author |-> Some(now - MS_PER_DAY), committer |-> Some(now - MS_PER_DAY)]>>}

\* a quiet repository, or one with an idle pull request and a burst of
\* stale-labelled issues
PullsAndIssues(now) ==
    {[pulls |-> <<>>, issues |-> <<>>],
     [pulls |-> <<[number |-> 11, updated_at |-> now - 3 * MS_PER_DAY, draft |-> FALSE],
                  [number |-> 12, updated_at |-> now - MS_PER_DAY, draft |-> FALSE]>>,
      issues |-> [i \in 1..5 |-> [number |-> 20 + i, pull_request |-> FALSE,
                                  labels |-> {StaleLabel},
                                  updated_at |-> now - i * MS_PER_HOUR]]]}

NothingFails == [commits |-> FALSE, pulls |-> {}, issues |-> {}]

Activities(now) ==
    {[commits |-> c, pulls |-> pi.pulls, issues |-> pi.issues,
      search |-> Some(Len(pi.issues)), failing |-> NothingFails] :
        c \in CommitLists(now), pi \in PullsAndIssues(now)}

(********************************* actions **********************************)
NoCall ==
    [repo |-> "", force |-> FALSE, requested |-> "auto",
     settings |-> DEFAULT_ALERT_SETTINGS, now |-> 0, before |-> <<>>,
     outcome |-> "none", sent |-> FALSE, reason |-> "", suppressed |-> <<>>,
     sentAlerts |-> <<>>, channel |-> None, sentAt |-> None, error |-> None,
     sends |-> <<>>, active |-> <<>>, rejected |-> NothingFails]

\* no sanitizeSettings call, GET request or scheduled run under way
NoSanitize == [input |-> None, output |-> None, again |-> None]
NoEvaluation == [outcome |-> "none"]
NoCron == [outcome |-> "none"]
NoSave == [outcome |-> "none"]
NoStaleScan == [outcome |-> "none"]

\* the calls that can overlap, none of them started
CallIds == 1..MaxCalls
IdleCall == [pc |-> "idle"]
NoCalls == [c \in CallIds |-> IdleCall]

Init ==
    /\ env \in Environments
    /\ alert_settings \in SettingsStores
    /\ alert_deliveries = <<>>
    /\ clock = ClockStart
    /\ last = NoCall
    /\ sanitized = NoSanitize
    /\ evaluated = NoEvaluation
    /\ cron = NoCron
    /\ overlapping = NoCalls
    /\ saved = NoSave
    /\ stale = NoStaleScan

\* time passes between two calls
Tick ==
    \E d \in TickSteps :
        /\ last.outcome = "none"
        /\ clock + d <= ClockStart + MaxElapsedHours * MS_PER_HOUR
        /\ clock' = clock + d
        /\ UNCHANGED <<env, alert_settings, alert_deliveries, last, sanitized, evaluated, cron,
                   overlapping, saved, stale>>

\* POST /api/alerts: settings from the store, then dispatchRepoAlerts.
\* responseOk is the endpoint's answer if the call gets to ask it.
Dispatch(repo, force, channel, activity, responseOk) ==
    LET repoParams == parseRepo(repo)[1]
        settings == getAlertSettings(alert_settings, getRepoKey(repoParams))
    IN \E r \in {dispatchRepoAlerts([repoParams |-> repoParams, settings |-> settings,
                                     force |-> force, channel |-> channel],
                                    activity, responseOk, alert_deliveries, clock, env)} :
        /\ responseOk \/ r.sends # <<>>
        /\ Len(alert_deliveries) + Len(r.events) <= MaxDeliveries
        /\ alert_deliveries' = alert_deliveries \o r.events
        /\ last' = [repo |-> repo, force |-> force, requested |-> channel,
                    settings |-> settings, now |-> clock, before |-> alert_deliveries,
                    outcome |-> r.outcome, sent |-> r.sent, reason |-> r.reason,
                    suppressed |-> r.suppressed, sentAlerts |-> r.sentAlerts,
                    channel |-> r.channel, sentAt |-> r.sentAt, error |-> r.error,
                    sends |-> r.sends, active |-> r.active,
                    rejected |-> activity.failing]
        /\ UNCHANGED <<env, alert_settings, clock, sanitized, evaluated, cron,
                   overlapping, saved, stale>>

\* the requests made: any request for the first repository; for the second,
\* the request a scheduled run makes (channel auto, not forced)
Requests ==
    {[repo |-> "acme/api", force |-> f, channel |-> c] : f \in BOOLEAN, c \in Channels}
    \cup {[repo |-> "acme/web", force |-> FALSE, channel |-> "auto"]}

PostAlerts ==
    /\ last.outcome = "none"
    /\ \E req \in Requests, activity \in Activities(clock), responseOk \in BOOLEAN :
           Dispatch(req.repo, req.force, req.channel, activity, responseOk)

\* the response (or the error) reaches the caller
Respond ==
    /\ last.outcome # "none"
    /\ last' = NoCall
    /\ UNCHANGED <<env, alert_settings, alert_deliveries, clock, sanitized, evaluated, cron,
                   overlapping, saved, stale>>

Next == Tick \/ PostAlerts \/ Respond

Spec == Init /\ [][Next]_vars

(************************** sanitizeSettings calls **************************)
\* the range the code gives each numeric setting
SettingRanges ==
    [cooldownHours |-> [min |-> 1, max |-> 168],
     noCommitDays |-> [min |-> 1, max |-> 180],
     prStuckDays |-> [min |-> 1, max |-> 90],
     staleSpikeCount |-> [min |-> 1, max |-> 200],
     staleWindowDays |-> [min |-> 1, max |-> 30]]

NumericFields == DOMAIN SettingRanges
RuleFields == NumericFields \ {"cooldownHours"}

JsNull == [type |-> "object", isNull |-> TRUE]

\* what a property can hold where a number is expected: nothing, values that
\* are not numbers, the numbers that are not finite, and finite numbers in
\* steps of one half from below the range to above it
NumberInputs(range) ==
    {None, Some(JsNull), Some(Text("12")), Some(Bool(TRUE)),
     Some(NaN), Some(PosInfinity), Some(NegInfinity), Some(Num(-3))}
    \cup {Some(Num(h)) : h \in (2 * range.min - 2 - Beyond)..(2 * range.min + 1)}
    \cup {Some(Num(h)) : h \in (2 * range.max - 1)..(2 * range.max + Beyond)}

EnabledInputs == {None, Some(Bool(TRUE)), Some(Bool(FALSE)), Some(Text("yes"))}

\* objects to vary one property of: nothing set, everything inside its
\* range, everything above, everything below
SettingsProfiles ==
    {[enabled |-> None, cooldownHours |-> None,
      rules |-> Some([f \in RuleFields |-> None])],
     [enabled |-> Some(Bool(FALSE)), cooldownHours |-> Some(Whole(12)),
      rules |-> Some([noCommitDays |-> Some(Whole(14)), prStuckDays |-> Some(Num(9)),
                      staleSpikeCount |-> Some(Whole(10)),
                      staleWindowDays |-> Some(Num(3))])],
     [enabled |-> Some(Bool(TRUE)), cooldownHours |-> Some(Whole(1000)),
      rules |-> Some([f \in RuleFields |-> Some(Num(2 * SettingRanges[f].max + 1))])],
     [enabled |-> Some(Text("yes")), cooldownHours |-> Some(Whole(0)),
      rules |-> Some([f \in RuleFields |-> Some(Num(0 - 2 * SettingRanges[f].max))])]}

withField(object, field, value) ==
    IF field = "cooldownHours" THEN [object EXCEPT !.cooldownHours = value]
    ELSE [object EXCEPT !.rules = Some([@[1] EXCEPT ![field] = value])]

SettingsInputs ==
    {None}
    \cup {Some([enabled |-> e, cooldownHours |-> c, rules |-> None]) :
            e \in EnabledInputs, c \in NumberInputs(SettingRanges.cooldownHours)}
    \cup UNION {{Some(withField(object, f, v)) : v \in NumberInputs(SettingRanges[f])} :
                    object \in SettingsProfiles, f \in NumericFields}

InitSanitize ==
    /\ env \in Environments
    /\ alert_settings \in SettingsStores
    /\ alert_deliveries = <<>>
    /\ clock = ClockStart
    /\ last = NoCall
    /\ sanitized \in {[NoSanitize EXCEPT !.input = x] : x \in SettingsInputs}
    /\ evaluated = NoEvaluation
    /\ cron = NoCron
    /\ overlapping = NoCalls
    /\ saved = NoSave
    /\ stale = NoStaleScan

\* sanitizeSettings(input)
Sanitize ==
    /\ sanitized.output = None
    /\ sanitized' = [sanitized EXCEPT !.output = Some(sanitizeSettings(sanitized.input))]
    /\ UNCHANGED <<env, alert_settings, alert_deliveries, clock, last, evaluated, cron,
                   overlapping, saved, stale>>

\* the result is handed back in: sanitizeSettings(output)
SanitizeAgain ==
    /\ sanitized.output # None
    /\ sanitized.again = None
    /\ sanitized' = [sanitized EXCEPT
                        !.again = Some(sanitizeSettings(settingsObject(sanitized.output[1])))]
    /\ UNCHANGED <<env, alert_settings, alert_deliveries, clock, last, evaluated, cron,
                   overlapping, saved, stale>>

NextSanitize == Sanitize \/ SanitizeAgain

SpecSanitize == InitSanitize /\ [][NextSanitize]_vars

(***************************** GET /api/alerts ******************************)
\* the settings documents the evaluated repositories have: the defaults'
\* thresholds for the first, other thresholds for the second
EvalStore ==
    [repo \in Repos |->
        IF repo = "acme/api" THEN storedDoc(TRUE, 1)
        ELSE settingsObject([enabled |-> TRUE, cooldownHours |-> 2,
                             rules |-> [noCommitDays |-> 1, prStuckDays |-> 5,
                                        staleSpikeCount |-> 4, staleWindowDays |-> 3]])]

commitAt(date) == [author |-> Some(date), committer |-> Some(date)]

\* no commit, commits around both noCommitDays thresholds, a commit with
\* only a committer date, a commit with no date, an older commit behind the
\* latest
EvalCommitLists(now) ==
    {<<>>,
     <<[author |-> None, committer |-> None]>>,
     <<[author |-> None, committer |-> Some(now - 7 * MS_PER_DAY)]>>,
     <<commitAt(now - 6 * MS_PER_DAY), commitAt(now - 9 * MS_PER_DAY)>>}
    \cup {<<commitAt(now - age)>> :
            age \in {MS_PER_DAY - 1, MS_PER_DAY, 7 * MS_PER_DAY - 1, 7 * MS_PER_DAY}}

\* open pull requests last updated `ages[i]` ms ago, as the list request
\* returns them (sort updated, direction asc: oldest update first)
pullsIdle(now, ages) ==
    [i \in 1..Len(ages) |->
        [number |-> 100 + i, updated_at |-> now - ages[i], draft |-> FALSE]]

\* a draft pull request idle for six days, then a pull request that is no
\* draft, updated a day ago
pullsWithDraft(now) ==
    <<[number |-> 151, updated_at |-> now - 6 * MS_PER_DAY, draft |-> TRUE],
      [number |-> 152, updated_at |-> now - MS_PER_DAY, draft |-> FALSE]>>

SmallPullLists(now) ==
    {pullsIdle(now, ages) : ages \in
        {<<>>,
         <<5 * MS_PER_DAY, 3 * MS_PER_DAY, MS_PER_DAY>>,
         <<5 * MS_PER_DAY, 3 * MS_PER_DAY, 3 * MS_PER_DAY - 1>>,
         <<2 * MS_PER_DAY, MS_PER_DAY>>,
         [i \in 1..13 |-> (14 - i - (i % 2)) * MS_PER_DAY + (13 - i)]}}
    \cup {pullsWithDraft(now)}

\* a full page (the loop asks for a second, empty one), and more pull
\* requests than the loop's pages hold, all idle for six days and more
LargePullLists(now) ==
    {[i \in 1..n |-> [number |-> 100 + i,
                      updated_at |-> now - 6 * MS_PER_DAY - (n - i),
                      draft |-> FALSE]] :
        n \in {PER_PAGE, MAX_OPEN_PR_PAGES * PER_PAGE + ExtraPulls}}

staleIssue(number, date) ==
    [number |-> number, pull_request |-> FALSE, labels |-> {StaleLabel, "bug"},
     updated_at |-> date]

\* issues as the list request returns them (state all, newest update
\* first): `current` stale-labelled issues updated in the last hours, a pull
\* request carrying the label, an issue without it, `previous`
\* stale-labelled issues updated a little over seven days ago, and one issue
\* older than any window
issuesWith(now, current, previous) ==
    [i \in 1..current |-> staleIssue(200 + i, now - i * MS_PER_HOUR)]
    \o << [number |-> 301, pull_request |-> TRUE, labels |-> {StaleLabel},
           updated_at |-> now - MS_PER_DAY],
          [number |-> 302, pull_request |-> FALSE, labels |-> {"bug"},
           updated_at |-> now - MS_PER_DAY - 1] >>
    \o [i \in 1..previous |-> staleIssue(400 + i, now - 7 * MS_PER_DAY - i * MS_PER_HOUR)]
    \o << staleIssue(500, now - 14 * MS_PER_DAY - 1) >>

\* four issues of the last hours, one updated on the instant the current
\* seven-day window starts and one a millisecond before it
issuesAtWindowStart(now) ==
    [i \in 1..4 |-> staleIssue(200 + i, now - i * MS_PER_HOUR)]
    \o << staleIssue(205, now - 7 * MS_PER_DAY),
          staleIssue(206, now - 7 * MS_PER_DAY - 1) >>

\* a page and a half of stale-labelled issues, and more issues than the
\* loop's pages hold, all updated in the last second
LargeIssueLists(now) ==
    {[i \in 1..n |-> staleIssue(1000 + i, now - i)] :
        n \in {PER_PAGE + PER_PAGE \div 2,
               MAX_STALE_SCAN_PAGES * PER_PAGE + ExtraIssues}}

EvalIssueLists(now) ==
    {issuesWith(now, c[1], c[2]) :
        c \in {<<0, 0>>, <<5, 5>>, <<4, 1>>, <<5, 4>>, <<4, 5>>, <<6, 0>>, <<3, 0>>}}
    \cup {issuesAtWindowStart(now)}

\* the requests that can reject, one at a time
Failures ==
    {[NothingFails EXCEPT !.commits = TRUE]}
    \cup {[NothingFails EXCEPT !.pulls = {page}] : page \in 1..2}
    \cup {[NothingFails EXCEPT !.issues = {page}] : page \in 1..2}

\* every combination of the short lists with all requests answered; the
\* long lists and the rejected requests with a few of the others
EvalActivities(now) ==
    {[commits |-> c, pulls |-> p, issues |-> i, search |-> s, failing |-> NothingFails] :
        c \in EvalCommitLists(now), p \in SmallPullLists(now),
        i \in EvalIssueLists(now), s \in {None, Some(3)}}
    \cup {[commits |-> <<commitAt(now - MS_PER_DAY)>>, pulls |-> p,
           issues |-> i, search |-> s, failing |-> f] :
            p \in LargePullLists(now) \cup {pullsIdle(now, <<5 * MS_PER_DAY>>)},
            i \in LargeIssueLists(now) \cup {issuesWith(now, 5, 4)},
            s \in {None, Some(3)}, f \in Failures \cup {NothingFails}}

InitEvaluate ==
    /\ env \in {e \in Environments :
                    e.ALERT_SLACK_WEBHOOK_URL = None /\ e.ALERT_DISCORD_WEBHOOK_URL = None}
    /\ alert_settings = EvalStore
    /\ alert_deliveries = <<>>
    /\ clock = ClockStart
    /\ last = NoCall
    /\ sanitized = NoSanitize
    /\ evaluated = NoEvaluation
    /\ cron = NoCron
    /\ overlapping = NoCalls
    /\ saved = NoSave
    /\ stale = NoStaleScan

\* GET /api/alerts: settings from the store, evaluateRepoAlerts, and the
\* response: the evaluation, or status 500 with the error's message
GetAlerts(repo, activity) ==
    LET repoParams == parseRepo(repo)[1]
        settings == getAlertSettings(alert_settings, getRepoKey(repoParams))
    IN \E r \in {evaluateRepoAlerts(repoParams, settings, activity, clock)} :
        /\ evaluated' =
             [outcome |-> IF r.threw = None THEN "returned" ELSE "threw",
              repo |-> repo, settings |-> settings, activity |-> activity,
              now |-> clock,
              webhookConfigured |-> isAlertWebhookConfigured(env),
              evaluation |-> IF r.threw = None THEN Some(r) ELSE None,
              error |-> r.threw, requests |-> r.requests]
        /\ UNCHANGED <<env, alert_settings, alert_deliveries, clock, last,
                       sanitized, cron,
                   overlapping, saved, stale>>

GetAlertsRequest ==
    /\ evaluated.outcome = "none"
    /\ last.outcome = "none"
    /\ \E repo \in Repos, activity \in EvalActivities(clock) : GetAlerts(repo, activity)

\* POST /api/alerts while requests to the hosting API reject or are answered
PostAlertsRequest ==
    /\ evaluated.outcome = "none"
    /\ last.outcome = "none"
    /\ \E req \in Requests, responseOk \in BOOLEAN,
          activity \in {a \in EvalActivities(clock) : Len(a.pulls) = 1} :
            Dispatch(req.repo, req.force, req.channel, activity, responseOk)

NextEvaluate == GetAlertsRequest \/ PostAlertsRequest

SpecEvaluate == InitEvaluate /\ [][NextEvaluate]_vars

(************************** POST /api/alerts/cron ***************************)
InvalidRepoError == "Invalid repo format"

\* the settings collection a scheduled run finds: documents of two
\* repositories, and one saved under a key with two slashes (PUT builds the
\* key from GITHUB_OWNER and GITHUB_REPO when the request names no
\* repository, and GITHUB_REPO may hold a slash)
CronStores ==
    {[repo \in {"acme/api", "acme/web", "acme/api/v2"} |->
        storedDoc(repo \in enabled, 1)] :
            enabled \in {{"acme/api", "acme/web", "acme/api/v2"},
                         {"acme/api", "acme/api/v2"}}}

\* settingsCollection.find({ enabled: true }).project({ repo: 1 })
enabledRepos(store) ==
    {repo \in DOMAIN store :
        store[repo] # None /\ store[repo][1].enabled = Some(Bool(TRUE))}

\* the orders in which a cursor can return the documents
Orders(set) ==
    {order \in [1..Cardinality(set) -> set] :
        \A i, j \in 1..Cardinality(set) : order[i] = order[j] => i = j}

\* what happens around the dispatch of one repository: the hosting API's
\* answers and the endpoint's
CronInputs(now) ==
    {[activity |-> a, responseOk |-> ok] :
        a \in Activities(now)
              \cup {[b EXCEPT !.failing = [NothingFails EXCEPT !.commits = TRUE]] :
                        b \in {c \in Activities(now) : c.commits = <<>> /\ c.pulls # <<>>}},
        ok \in BOOLEAN}

\* results.push for a repository whose text does not parse
invalidRepoResult(repo) ==
    [repo |-> repo, ok |-> FALSE, sent |-> FALSE, reason |-> "",
     error |-> Some(InvalidRepoError), sentAlerts |-> <<>>]

\* results.push after the dispatch of a repository: in the catch block when
\* it threw, after the await when it returned
dispatchedRepoResult(repo, dispatch) ==
    IF dispatch.outcome = "threw"
    THEN [repo |-> repo, ok |-> FALSE, sent |-> FALSE, reason |-> "",
          error |-> dispatch.error, sentAlerts |-> <<>>]
    ELSE [repo |-> repo, ok |-> TRUE, sent |-> dispatch.sent,
          reason |-> dispatch.reason, error |-> None,
          sentAlerts |-> dispatch.sentAlerts]

\* faulty variant: the try/catch is around the loop, so an error thrown for
\* one repository ends the loop
pendingAfter_endsOnError(pending, result) ==
    IF ~result.ok /\ result.error # Some(InvalidRepoError) THEN <<>>
    ELSE Tail(pending)

\* the loop goes on with the next repository, after `continue`, after the
\* try block and after the catch block
pendingAfter(pending, result) == Tail(pending)

InitCron ==
    /\ env \in Environments
    /\ alert_settings \in CronStores
    /\ alert_deliveries = <<>>
    /\ clock = ClockStart
    /\ last = NoCall
    /\ sanitized = NoSanitize
    /\ evaluated = NoEvaluation
    /\ cron = NoCron
    /\ overlapping = NoCalls
    /\ saved = NoSave
    /\ stale = NoStaleScan

\* the request carries no valid secret: status 401
CronUnauthorized ==
    /\ cron.outcome = "none"
    /\ cron' = [outcome |-> "unauthorized"]
    /\ UNCHANGED <<env, alert_settings, alert_deliveries, clock, last,
                   sanitized, evaluated,
                   overlapping, saved, stale>>

\* the handler up to the loop, with reposToProcess filled
cronStarts(reposToProcess) ==
    /\ cron' = [outcome |-> "running", repos |-> reposToProcess,
                pending |-> reposToProcess, inputs |-> <<>>, results |-> <<>>,
                before |-> alert_deliveries]
    /\ UNCHANGED <<env, alert_settings, alert_deliveries, clock, last,
                   sanitized, evaluated,
                   overlapping, saved, stale>>

\* the scheduled run: every repository whose document has enabled: true, at
\* most CRON_REPO_LIMIT of them, in the order the cursor returns them
CronScheduled ==
    /\ cron.outcome = "none"
    /\ \E order \in Orders(enabledRepos(alert_settings)) :
          cronStarts(SubSeq(order, 1, Min(CRON_REPO_LIMIT, Len(order))))

\* the run for the one repository the request names (?repo=)
CronForRepo ==
    /\ cron.outcome = "none"
    /\ \E requestedRepo \in DOMAIN TextTokens : cronStarts(<<requestedRepo>>)

\* one turn of the loop for a repository whose text does not parse
CronSkipsInvalid ==
    /\ cron.outcome = "running"
    /\ cron.pending # <<>>
    /\ parseRepo(Head(cron.pending)) = None
    /\ \E result \in {invalidRepoResult(Head(cron.pending))} :
          cron' = [cron EXCEPT !.pending = pendingAfter(@, result),
                               !.inputs = Append(@, [responseOk |-> TRUE,
                                                     failing |-> NothingFails]),
                               !.results = Append(@, result)]
    /\ UNCHANGED <<env, alert_settings, alert_deliveries, clock, last,
                   sanitized, evaluated,
                   overlapping, saved, stale>>

\* one turn of the loop for a repository whose text parses: settings from
\* the store under the text, dispatchRepoAlerts with channel auto and no
\* force, and the result pushed whether it returned or threw (the endpoint's
\* answer is drawn only where the endpoint is called)
CronDispatches ==
    /\ cron.outcome = "running"
    /\ cron.pending # <<>>
    /\ parseRepo(Head(cron.pending)) # None
    /\ \E input \in CronInputs(clock) :
        \E dispatch \in {dispatchRepoAlerts(
                            [repoParams |-> parseRepo(Head(cron.pending))[1],
                             settings |-> getAlertSettings(alert_settings,
                                                           Head(cron.pending)),
                             channel |-> "auto", force |-> FALSE],
                            input.activity, input.responseOk,
                            alert_deliveries, clock, env)} :
        \E result \in {dispatchedRepoResult(Head(cron.pending), dispatch)} :
            /\ input.responseOk \/ dispatch.sends # <<>>
            /\ cron' = [cron EXCEPT !.pending = pendingAfter(@, result),
                                    !.inputs = Append(@, [responseOk |-> input.responseOk,
                                                          failing |-> input.activity.failing]),
                                    !.results = Append(@, result)]
            /\ alert_deliveries' = alert_deliveries \o dispatch.events
    /\ UNCHANGED <<env, alert_settings, clock, last, sanitized, evaluated,
                   overlapping, saved, stale>>

\* the response after the loop
CronResponds ==
    /\ cron.outcome = "running"
    /\ cron.pending = <<>>
    /\ cron' = [outcome |-> "done", repos |-> cron.repos, inputs |-> cron.inputs,
                before |-> cron.before,
                processed |-> Len(cron.results),
                sent |-> Len(SelectSeq(cron.results, LAMBDA result : result.sent)),
                failed |-> Len(SelectSeq(cron.results, LAMBDA result : ~result.ok)),
                results |-> cron.results]
    /\ UNCHANGED <<env, alert_settings, alert_deliveries, clock, last,
                   sanitized, evaluated,
                   overlapping, saved, stale>>

NextCron ==
    \/ CronUnauthorized
    \/ CronScheduled
    \/ CronForRepo
    \/ CronSkipsInvalid
    \/ CronDispatches
    \/ CronResponds

SpecCron == InitCron /\ [][NextCron]_vars

(******************* dispatchRepoAlerts calls that overlap *******************)
(* Each call runs from one await to the next without interruption, and      *)
(* between two awaits of one call any other call may run.  A call is taken   *)
(* here in three steps: up to the await of the transport call (its reads    *)
(* of the settings, the hosting API and the delivery history are taken      *)
(* together: every run of this coarser model is a run of the code), the     *)
(* endpoint's answer, and insertMany with the return.                       *)
\* the requests that overlap: the dashboard's and the scheduled run's
OverlappingRequests ==
    {[repo |-> "acme/api", force |-> f, channel |-> "auto"] : f \in BOOLEAN}
    \cup {[repo |-> "acme/web", force |-> FALSE, channel |-> "auto"]}

\* what the hosting API holds while calls overlap: a repository with no
\* commit, quiet otherwise or with an idle pull request and a burst of
\* stale-labelled issues
OverlappingActivities(now) ==
    {a \in Activities(now) : a.commits = <<>>}

\* what the call does from what it has read, if the endpoint answers
\* responseOk
DispatchOf(call, responseOk) ==
    dispatchRepoAlerts([repoParams |-> parseRepo(call.repo)[1],
                        settings |-> call.settings,
                        force |-> call.force, channel |-> call.channel],
                       call.activity, responseOk, call.before, call.now, env)

\* faulty variant: an event replaces the events of its repository and rule
insertMany_upserts(deliveries, events) ==
    SelectSeq(deliveries, LAMBDA old :
        \A i \in 1..Len(events) :
            ~(events[i].repo = old.repo /\ events[i].ruleId = old.ruleId))
    \o events

\* deliveries.insertMany(events)
insertMany(deliveries, events) == deliveries \o events

InitOverlap ==
    /\ env \in {e \in Environments :
                    e.ALERT_SLACK_WEBHOOK_URL = None /\ e.ALERT_DISCORD_WEBHOOK_URL = None}
    /\ alert_settings \in SettingsStores
    /\ alert_deliveries = <<>>
    /\ clock = ClockStart
    /\ last = NoCall
    /\ sanitized = NoSanitize
    /\ evaluated = NoEvaluation
    /\ cron = NoCron
    /\ overlapping = NoCalls
    /\ saved = NoSave
    /\ stale = NoStaleScan

\* the call from its start to its first return or throw, or to the await of
\* the transport call (the calls are numbered in the order they start)
CallStarts(c) ==
    /\ overlapping[c].pc = "idle"
    /\ \A b \in CallIds : b < c => overlapping[b].pc # "idle"
    /\ \E req \in OverlappingRequests, activity \in OverlappingActivities(clock) :
        \E call \in {[pc |-> "sending", repo |-> req.repo, force |-> req.force,
                      channel |-> req.channel,
                      settings |-> getAlertSettings(alert_settings, req.repo),
                      activity |-> activity, now |-> clock,
                      before |-> alert_deliveries, result |-> None]} :
        \E r \in {DispatchOf(call, TRUE)} :
            overlapping' = [overlapping EXCEPT ![c] =
                        IF r.sends = <<>>
                        THEN [call EXCEPT !.pc = "done", !.result = Some(r)]
                        ELSE call]
    /\ UNCHANGED <<env, alert_settings, alert_deliveries, clock, last,
                   sanitized, evaluated, cron, saved, stale>>

\* fetch resolves: a response that is not ok makes the call throw, any other
\* takes it to insertMany
EndpointAnswers(c) ==
    /\ overlapping[c].pc = "sending"
    /\ \E responseOk \in BOOLEAN :
          overlapping' = [overlapping EXCEPT ![c] =
                      IF responseOk THEN [@ EXCEPT !.pc = "inserting"]
                      ELSE [@ EXCEPT !.pc = "done",
                                     !.result = Some(DispatchOf(overlapping[c], FALSE))]]
    /\ UNCHANGED <<env, alert_settings, alert_deliveries, clock, last,
                   sanitized, evaluated, cron, saved, stale>>

\* insertMany and the return
CallInserts(c) ==
    /\ overlapping[c].pc = "inserting"
    /\ \E r \in {DispatchOf(overlapping[c], TRUE)} :
        /\ alert_deliveries' = insertMany(alert_deliveries, r.events)
        /\ overlapping' = [overlapping EXCEPT ![c] = [@ EXCEPT !.pc = "done", !.result = Some(r)]]
    /\ UNCHANGED <<env, alert_settings, clock, last, sanitized, evaluated,
                   cron, saved, stale>>

CallSteps == \E c \in CallIds : CallStarts(c) \/ EndpointAnswers(c) \/ CallInserts(c)

NextOverlap == Tick \/ CallSteps

SpecOverlap == InitOverlap /\ [][NextOverlap]_vars

\* The steps a call takes by itself are taken: a call that has the
\* endpoint's answer goes on to insertMany and returns.  Nothing makes a
\* request arrive, time pass or an endpoint answer.
SpecOverlapFair ==
    SpecOverlap /\ \A c \in CallIds : WF_vars(CallInserts(c))

(****************************** PUT /api/alerts ******************************)
\* { ...a, ...b } for one property: the one b supplies, else a's
spread(currentValue, supplied) ==
    IF supplied = None THEN currentValue ELSE supplied

\* faulty variant: rules is spread like any other property, so the rules the
\* input supplies replace the current rules as a whole
mergeSettings_shallow(current, input) ==
    LET currentObject == settingsObject(current)[1]
    IN sanitizeSettings(Some(
           [enabled |-> spread(currentObject.enabled, input.enabled),
            cooldownHours |-> spread(currentObject.cooldownHours, input.cooldownHours),
            rules |-> spread(currentObject.rules, input.rules)]))

\* sanitizeSettings({ ...current, ...input,
\*                    rules: { ...current.rules, ...(input.rules || {}) } })
\* input.rules is None when the input has no rules or rules: null
mergeSettings(current, input) ==
    LET currentObject == settingsObject(current)[1]
        inputRules == IF input.rules = None THEN [f \in RuleFields |-> None]
                      ELSE input.rules[1]
    IN sanitizeSettings(Some(
           [enabled |-> spread(currentObject.enabled, input.enabled),
            cooldownHours |-> spread(currentObject.cooldownHours, input.cooldownHours),
            rules |-> Some([f \in RuleFields |->
                              spread(currentObject.rules[1][f], inputRules[f])])]))

\* updateOne({ repo }, { $set: { ...merged, updatedAt: now },
\*                       $setOnInsert: { createdAt: now } }, { upsert: true })
updateOne(store, repo, merged, now) ==
    LET set == settingsObject(merged)[1]
    IN [store EXCEPT ![repo] =
            Some([enabled |-> set.enabled,
                  cooldownHours |-> set.cooldownHours,
                  rules |-> set.rules,
                  updatedAt |-> now,
                  createdAt |-> IF @ = None THEN now ELSE @[1].createdAt])]

\* the store after the call and the settings the call returns
saveAlertSettings(store, repo, input, now) ==
    LET merged == mergeSettings(getAlertSettings(store, repo), input)
    IN [store |-> updateOne(store, repo, merged, now), returned |-> merged]

rulesInput(noCommitDays, prStuckDays, staleSpikeCount, staleWindowDays) ==
    Some([noCommitDays |-> noCommitDays, prStuckDays |-> prStuckDays,
          staleSpikeCount |-> staleSpikeCount, staleWindowDays |-> staleWindowDays])

\* request bodies: nothing supplied, one top-level property, values outside
\* the range or of the wrong type, some of the rules, rules: null, everything
PutInputs ==
    {[enabled |-> None, cooldownHours |-> None, rules |-> None],
     [enabled |-> Some(Bool(FALSE)), cooldownHours |-> None, rules |-> None],
     [enabled |-> None, cooldownHours |-> Some(Whole(500)), rules |-> None],
     [enabled |-> Some(JsNull), cooldownHours |-> Some(Text("12")), rules |-> None],
     [enabled |-> None, cooldownHours |-> None,
      rules |-> rulesInput(None, Some(Num(5)), None, None)],
     [enabled |-> None, cooldownHours |-> None,
      rules |-> rulesInput(Some(Whole(0)), None, None, Some(Whole(10)))],
     [enabled |-> Some(Bool(TRUE)), cooldownHours |-> Some(Whole(6)),
      rules |-> rulesInput(Some(Whole(14)), Some(Whole(2)), Some(Whole(9)),
                           Some(Whole(3)))]}

\* the requests made: any body for the first repository, one for the second
PutRequests ==
    {[repo |-> "acme/api", input |-> input] : input \in PutInputs}
    \cup {[repo |-> "acme/web",
           input |-> [enabled |-> Some(Bool(FALSE)), cooldownHours |-> None,
                      rules |-> None]]}

\* what evaluateRepoAlerts finds after the save: a repository without
\* commits or pull requests, with the commits request answered or rejected
PutActivities(now) ==
    {[a EXCEPT !.failing = f] :
        a \in {b \in Activities(now) : b.pulls = <<>> /\ b.commits = <<>>},
        f \in {NothingFails, [NothingFails EXCEPT !.commits = TRUE]}}

\* no document in the settings collection; the generic endpoint configured
InitSave ==
    /\ env \in {e \in Environments :
                    /\ e.ALERT_WEBHOOK_URL # None
                    /\ e.ALERT_SLACK_WEBHOOK_URL = None
                    /\ e.ALERT_DISCORD_WEBHOOK_URL = None}
    /\ alert_settings = [repo \in Repos |-> None]
    /\ alert_deliveries = <<>>
    /\ clock = ClockStart
    /\ last = NoCall
    /\ sanitized = NoSanitize
    /\ evaluated = NoEvaluation
    /\ cron = NoCron
    /\ overlapping = NoCalls
    /\ saved = NoSave
    /\ stale = NoStaleScan

\* PUT /api/alerts: saveAlertSettings, then evaluateRepoAlerts with the
\* saved settings; status 500 if either rejects.  The save is not undone
\* when the evaluation rejects.
PutAlerts(repo, input, activity) ==
    LET repoParams == parseRepo(repo)[1]
        key == getRepoKey(repoParams)
        call == saveAlertSettings(alert_settings, key, input, clock)
        evaluation == evaluateRepoAlerts(repoParams, call.returned, activity, clock)
    IN /\ alert_settings' = call.store
       /\ saved' = [outcome |-> IF evaluation.threw = None THEN "returned" ELSE "threw",
                    repo |-> key, input |-> input, now |-> clock,
                    before |-> alert_settings[key],
                    settings |-> call.returned,
                    webhookConfigured |-> isAlertWebhookConfigured(env)]
       /\ UNCHANGED <<env, alert_deliveries, clock, last, sanitized, evaluated, cron,
                      overlapping, stale>>

PutAlertsRequest ==
    \E req \in PutRequests, activity \in PutActivities(clock) :
        PutAlerts(req.repo, req.input, activity)

NextSave == Tick \/ PutAlertsRequest

SpecSave == InitSave /\ [][NextSave]_vars

(****************************** stale manager *******************************)
\* differenceInDays(dateLeft, dateRight) of date-fns: the number of full
\* days between the two dates, rounded towards zero
differenceInDays(dateLeft, dateRight) ==
    IF dateLeft >= dateRight THEN (dateLeft - dateRight) \div MS_PER_DAY
    ELSE -((dateRight - dateLeft) \div MS_PER_DAY)

\* faulty variant: the closing threshold is looked at whether or not the
\* item is stale already
getStaleAction_closesUnmarked(item, config, now) ==
    LET daysSinceUpdate == differenceInDays(now, item.updatedAt)
    IN IF \E l \in item.labels : l \in config.ignoreLabels
       THEN [type |-> "NONE", reason |-> "Item has protected label"]
       ELSE IF daysSinceUpdate >= config.closeThresholdDays
       THEN [type |-> "CLOSE", reason |-> "Stale for", days |-> daysSinceUpdate]
       ELSE IF ~item.isStale /\ daysSinceUpdate >= config.staleThresholdDays
       THEN [type |-> "MARK_STALE", reason |-> "No activity for", days |-> daysSinceUpdate]
       ELSE [type |-> "NONE", reason |-> "Activity threshold not met"]

\* item = [updatedAt, labels, isStale]; config is config/default-stale.json
getStaleAction(item, config, now) ==
    LET daysSinceUpdate == differenceInDays(now, item.updatedAt)
    IN IF \E l \in item.labels : l \in config.ignoreLabels
       THEN [type |-> "NONE", reason |-> "Item has protected label"]
       ELSE IF ~item.isStale /\ daysSinceUpdate >= config.staleThresholdDays
       THEN [type |-> "MARK_STALE", reason |-> "No activity for", days |-> daysSinceUpdate]
       ELSE IF item.isStale /\ daysSinceUpdate >= config.closeThresholdDays
       THEN [type |-> "CLOSE", reason |-> "Stale for", days |-> daysSinceUpdate]
       ELSE [type |-> "NONE", reason |-> "Activity threshold not met"]

\* one turn of the loop of POST /api/stale: what the handler asks the
\* hosting API to do to the issue, and the issue after it
scanIssue(issue, config, now) ==
    LET labels == issue.labels \ {""}
        isStale == config.staleLabel \in labels
        action == getStaleAction([updatedAt |-> issue.updated_at, labels |-> labels,
                                  isStale |-> isStale], config, now)
    IN [number |-> issue.number,
        isStale |-> isStale,
        action |-> action.type,
        comment |-> IF action.type = "MARK_STALE" THEN Some("staleMessage")
                    ELSE IF action.type = "CLOSE" THEN Some("closeMessage")
                    ELSE None,
        labelsAfter |-> IF action.type = "MARK_STALE"
                        THEN issue.labels \cup {config.staleLabel}
                        ELSE issue.labels,
        stateAfter |-> IF action.type = "CLOSE" THEN "closed" ELSE "open",
        result |-> IF action.type = "MARK_STALE"
                   THEN Some([number |-> issue.number, action |-> "marked stale"])
                   ELSE IF action.type = "CLOSE"
                   THEN Some([number |-> issue.number, action |-> "closed"])
                   ELSE None,
        snapshot |-> [number |-> issue.number, labels |-> labels,
                      isStale |-> isStale, updatedAt |-> issue.updated_at,
                      createdAt |-> now]]

\* the configurations tried: the closing threshold below the marking one
\* and above it, with and without protected labels
StaleConfigs ==
    {[staleLabel |-> StaleLabel, ignoreLabels |-> ignore,
      staleThresholdDays |-> t[1], closeThresholdDays |-> t[2]] :
        ignore \in {{}, {"pinned", "security"}},
        t \in {<<10, 7>>, <<3, 5>>}}

\* the ages tried: around both thresholds of every configuration
StaleAges(config) ==
    {0, MS_PER_DAY}
    \cup {days * MS_PER_DAY - before :
            days \in {config.staleThresholdDays, config.closeThresholdDays},
            before \in {0, 1}}
    \cup {(config.staleThresholdDays + config.closeThresholdDays) * MS_PER_DAY}

StaleLabelSets == {{}, {"bug"}, {StaleLabel}, {"pinned"}, {StaleLabel, "pinned"},
                   {"bug", "security", StaleLabel}}

\* open issues as the list request returns them
ScanIssueLists(config, now) ==
    {<<[number |-> 1, labels |-> l1, updated_at |-> now - a1],
       [number |-> 2, labels |-> l2, updated_at |-> now - a2]>> :
        l1 \in StaleLabelSets, l2 \in {{}, {StaleLabel}},
        a1 \in StaleAges(config),
        a2 \in {config.staleThresholdDays * MS_PER_DAY,
                config.closeThresholdDays * MS_PER_DAY}}

InitStale ==
    /\ env \in {e \in Environments :
                    e.ALERT_SLACK_WEBHOOK_URL = None /\ e.ALERT_DISCORD_WEBHOOK_URL = None}
    /\ alert_settings = EvalStore
    /\ alert_deliveries = <<>>
    /\ clock = ClockStart
    /\ last = NoCall
    /\ sanitized = NoSanitize
    /\ evaluated = NoEvaluation
    /\ cron = NoCron
    /\ overlapping = NoCalls
    /\ saved = NoSave
    /\ stale = NoStaleScan

\* a call of getStaleAction by any caller: isStale is the caller's word
StaleActionCall ==
    /\ stale.outcome = "none"
    /\ \E config \in StaleConfigs, labels \in StaleLabelSets, isStale \in BOOLEAN :
        \E age \in StaleAges(config) :
        \E item \in {[updatedAt |-> clock - age, labels |-> labels,
                      isStale |-> isStale]} :
            stale' = [outcome |-> "action", config |-> config, now |-> clock,
                      item |-> item, action |-> getStaleAction(item, config, clock)]
    /\ UNCHANGED <<env, alert_settings, alert_deliveries, clock, last,
                   sanitized, evaluated, cron, overlapping, saved>>

\* POST /api/stale for a repository the request names validly: the open
\* issues are listed once, then each is looked at in turn
StaleScanPost ==
    /\ stale.outcome = "none"
    /\ \E config \in StaleConfigs :
        \E issues \in ScanIssueLists(config, clock) :
        \E turns \in {[i \in 1..Len(issues) |-> scanIssue(issues[i], config, clock)]} :
            stale' = [outcome |-> "scanned", config |-> config, now |-> clock,
                      issues |-> issues, turns |-> turns,
                      processed |-> Len(issues),
                      results |-> [i \in 1..Len(SelectSeq(turns, LAMBDA t : t.result # None))
                                     |-> SelectSeq(turns, LAMBDA t : t.result # None)[i].result[1]],
                      snapshots |-> [i \in 1..Len(turns) |-> turns[i].snapshot]]
    /\ UNCHANGED <<env, alert_settings, alert_deliveries, clock, last,
                   sanitized, evaluated, cron, overlapping, saved>>

NextStale == StaleActionCall \/ StaleScanPost

SpecStale == InitStale /\ [][NextStale]_vars

(********************************* claims ***********************************)
Range(seq) == {seq[i] : i \in 1..Len(seq)}

NoDuplicates(seq) == Cardinality(Range(seq)) = Len(seq)

\* a dispatch call has been made and its result is at hand
Called == last.outcome # "none"

\* the severity fixed for each rule
SeverityOfRule(id) == IF id = "NO_COMMITS" THEN "HIGH" ELSE "MEDIUM"

\* the history holds an event for (repo, rule) sent less than `hours` before now
RecentlySent(history, repo, rule, now, hours) ==
    \E i \in 1..Len(history) :
        /\ history[i].repo = repo
        /\ history[i].ruleId = rule
        /\ now - history[i].sentAt < hours * MS_PER_HOUR

NoEndpoint ==
    /\ env.ALERT_WEBHOOK_URL = None
    /\ env.ALERT_SLACK_WEBHOOK_URL = None
    /\ env.ALERT_DISCORD_WEBHOOK_URL = None

\* the call was skipped neither as disabled nor as having nothing to send
ReachedResolution ==
    /\ Called
    /\ last.settings.enabled \/ last.force
    /\ last.active # <<>>

NothingDone ==
    /\ last.sends = <<>>
    /\ alert_deliveries = last.before

\* C1: with only non-forced sends for a repository (its cooldownHours never
\* changes in Spec), no two events of the history for the same
\* (repository, rule) pair are less than cooldownHours apart.
C1_NoTwoEventsWithinCooldown ==
    \A repo \in Repos :
        (\A k \in 1..Len(alert_deliveries) :
            alert_deliveries[k].repo = repo => ~alert_deliveries[k].force)
        => \A i, j \in 1..Len(alert_deliveries) :
            (/\ i < j
             /\ alert_deliveries[i].repo = repo
             /\ alert_deliveries[j].repo = repo
             /\ alert_deliveries[i].ruleId = alert_deliveries[j].ruleId)
            => alert_deliveries[j].sentAt - alert_deliveries[i].sentAt
                 >= getAlertSettings(alert_settings, repo).cooldownHours * MS_PER_HOUR

\* two non-forced events for one pair, the second sent as soon as the
\* cooldown allowed
C1_Witness ==
    \E i, j \in 1..Len(alert_deliveries) :
        /\ i < j
        /\ alert_deliveries[i].repo = alert_deliveries[j].repo
        /\ alert_deliveries[i].ruleId = alert_deliveries[j].ruleId
        /\ ~alert_deliveries[i].force /\ ~alert_deliveries[j].force
        /\ alert_deliveries[j].sentAt - alert_deliveries[i].sentAt
             = getAlertSettings(alert_settings, alert_deliveries[i].repo).cooldownHours
                 * MS_PER_HOUR

\* C2: a forced dispatch sends every active rule in one transport call,
\* whatever the history and settings.enabled, with nothing suppressed; with no
\* active rule it sends nothing, and with an active rule and no resolvable
\* target it throws the configuration error.
C2_ForceSendsEveryActiveRule ==
    (Called /\ last.force) =>
        /\ last.active = <<>> =>
            (last.outcome = "returned" /\ ~last.sent /\ NothingDone)
        /\ (last.active # <<>> /\ resolveDeliveryTarget(last.requested, env) = None) =>
            (last.outcome = "threw" /\ last.error = Some(NotConfiguredError)
             /\ NothingDone)
        /\ (last.active # <<>> /\ resolveDeliveryTarget(last.requested, env) # None) =>
            /\ Len(last.sends) = 1
            /\ last.sends[1].message.rules = last.active
            /\ last.outcome = "returned" =>
                (last.sent /\ last.sentAlerts = last.active /\ last.suppressed = <<>>)
            /\ last.outcome = "threw" => last.sends[1].threw # None

\* a forced call for a disabled repository sends a rule sent less than
\* cooldownHours before
C2_Witness ==
    /\ Called /\ last.force /\ last.sent
    /\ ~last.settings.enabled
    /\ \E rule \in Range(last.sentAlerts) :
          RecentlySent(last.before, last.repo, rule, last.now,
                       last.settings.cooldownHours)

\* C3: a dispatch whose evaluation has no active alert returns sent=false
\* with empty sentAlerts, makes no transport call and inserts no event.
C3_NoActiveAlertNoSend ==
    (Called /\ last.active = <<>>) =>
        /\ last.outcome = "returned"
        /\ ~last.sent
        /\ last.sentAlerts = <<>>
        /\ NothingDone

\* a forced call with nothing active, settings enabled and no endpoint
C3_Witness ==
    /\ Called /\ last.active = <<>> /\ last.force
    /\ last.settings.enabled /\ NoEndpoint
    /\ last.outcome = "returned" /\ last.reason = NoActiveReason

\* C4: a non-forced dispatch with settings.enabled false returns sent=false
\* with the disabled reason and empty lists, and does nothing else.
C4_DisabledSkipsEntirely ==
    (Called /\ ~last.settings.enabled /\ ~last.force) =>
        /\ last.outcome = "returned"
        /\ ~last.sent
        /\ last.reason = DisabledReason
        /\ last.sentAlerts = <<>>
        /\ last.suppressed = <<>>
        /\ NothingDone

\* a disabled, non-forced call that had active rules, a target and no
\* recent event: everything a send needs
C4_Witness ==
    /\ Called /\ ~last.settings.enabled /\ ~last.force
    /\ last.active # <<>>
    /\ resolveDeliveryTarget(last.requested, env) # None
    /\ last.before = <<>>
    /\ last.reason = DisabledReason

\* C5: with no endpoint configured channel auto resolves to null, and a
\* dispatch that gets as far as resolving its target throws the configuration
\* error: it returns no result, calls no transport and inserts nothing.
C5_NoTargetIsAnError ==
    NoEndpoint =>
        /\ resolveDeliveryTarget("auto", env) = None
        /\ (ReachedResolution /\ last.requested = "auto") =>
            /\ last.outcome = "threw"
            /\ last.error = Some(NotConfiguredError)
            /\ ~last.sent
            /\ NothingDone

C5_Witness ==
    /\ NoEndpoint
    /\ ReachedResolution /\ last.requested = "auto" /\ ~last.force
    /\ last.outcome = "threw"

\* the last call asked the transport and the transport failed
SendFailed == Called /\ last.sends # <<>> /\ last.sends[1].threw # None

\* C6: when the transport send fails the call throws and the history is as
\* before the call; after a non-forced call failed, every rule it tried to
\* send is still outside its cooldown (no recent event for it), so the same
\* non-forced dispatch would find the same rules sendable.
C6_FailedSendRecordsNothing ==
    SendFailed =>
        /\ last.outcome = "threw"
        /\ last.error = last.sends[1].threw
        /\ ~last.sent
        /\ alert_deliveries = last.before
        /\ ~last.force =>
            /\ last.sends[1].message.rules # <<>>
            /\ Range(last.sends[1].message.rules) =
                 {rule \in Range(last.active) :
                    ~RecentlySent(alert_deliveries, last.repo, rule, last.now,
                                  last.settings.cooldownHours)}

\* a non-forced send fails while the history already holds an event
C6_Witness ==
    /\ SendFailed /\ ~last.force
    /\ last.before # <<>>
    /\ Len(last.sends[1].message.rules) >= 2

\* the event the code writes for rule `id` of the last call
ExpectedEvent(id) ==
    [repo |-> last.repo, ruleId |-> id, severity |-> SeverityOfRule(id),
     sentAt |-> last.now,
     channel |-> resolveDeliveryTarget(last.requested, env)[1].kind,
     force |-> last.force]

C8_AllInCooldownSkips ==
    (/\ ReachedResolution /\ ~last.force
     /\ resolveDeliveryTarget(last.requested, env) # None
     /\ \A rule \in Range(last.active) :
           RecentlySent(last.before, last.repo, rule, last.now,
                        last.settings.cooldownHours))
    => /\ last.outcome = "returned"
       /\ ~last.sent
       /\ last.reason = CooldownReason
       /\ last.suppressed = last.active
       /\ last.sentAlerts = <<>>
       /\ NothingDone

\* two active rules, both sent one millisecond less than the cooldown ago
C8_Witness ==
    /\ Called /\ ~last.force /\ last.reason = CooldownReason
    /\ Len(last.suppressed) = 2
    /\ \A i \in 1..Len(last.before) :
          last.now - last.before[i].sentAt
            = last.settings.cooldownHours * MS_PER_HOUR - 1

\* the target expected for `kind` when its endpoint is set
TargetOf(kind, url) == IF url = None THEN None ELSE Some([kind |-> kind, url |-> url[1]])

\* C9: channel auto resolves to the first configured endpoint in the order
\* generic webhook, Slack, Discord, and to null exactly when none is
\* configured; a dispatch with channel auto that sends uses that target.
C9_AutoTakesFirstConfigured ==
    LET target == resolveDeliveryTarget("auto", env)
    IN /\ env.ALERT_WEBHOOK_URL # None =>
            target = TargetOf("webhook", env.ALERT_WEBHOOK_URL)
       /\ (env.ALERT_WEBHOOK_URL = None /\ env.ALERT_SLACK_WEBHOOK_URL # None) =>
            target = TargetOf("slack", env.ALERT_SLACK_WEBHOOK_URL)
       /\ (env.ALERT_WEBHOOK_URL = None /\ env.ALERT_SLACK_WEBHOOK_URL = None
           /\ env.ALERT_DISCORD_WEBHOOK_URL # None) =>
            target = TargetOf("discord", env.ALERT_DISCORD_WEBHOOK_URL)
       /\ target = None <=> NoEndpoint
       /\ isAlertWebhookConfigured(env) <=> ~NoEndpoint
       /\ (Called /\ last.requested = "auto" /\ last.sends # <<>>) =>
            (target # None /\ last.sends[1].kind = target[1].kind
             /\ last.sends[1].url = target[1].url)

\* only Discord is configured and a dispatch with channel auto sends there
C9_Witness ==
    /\ env.ALERT_WEBHOOK_URL = None /\ env.ALERT_SLACK_WEBHOOK_URL = None
    /\ env.ALERT_DISCORD_WEBHOOK_URL # None
    /\ Called /\ last.requested = "auto" /\ last.sent
    /\ last.channel = Some("discord")

\* the endpoint variable an explicit channel reads
EndpointOf(channel) ==
    IF channel = "webhook" THEN env.ALERT_WEBHOOK_URL
    ELSE IF channel = "slack" THEN env.ALERT_SLACK_WEBHOOK_URL
    ELSE env.ALERT_DISCORD_WEBHOOK_URL

\* C10: an explicit channel resolves to its own endpoint when that is
\* configured and to null otherwise, whatever else is configured; a dispatch
\* asking for an unconfigured explicit channel that gets as far as resolving
\* throws the configuration error.
C10_ExplicitChannelNoFallback ==
    /\ \A channel \in {"webhook", "slack", "discord"} :
          resolveDeliveryTarget(channel, env) = TargetOf(channel, EndpointOf(channel))
    /\ (ReachedResolution /\ last.requested # "auto"
        /\ EndpointOf(last.requested) = None) =>
          (last.outcome = "threw" /\ last.error = Some(NotConfiguredError)
           /\ NothingDone)
    /\ (Called /\ last.requested # "auto" /\ last.sends # <<>>) =>
          last.sends[1].kind = last.requested

\* Slack is asked for and not configured while the two others are
C10_Witness ==
    /\ ReachedResolution /\ last.requested = "slack"
    /\ env.ALERT_SLACK_WEBHOOK_URL = None
    /\ env.ALERT_WEBHOOK_URL # None /\ env.ALERT_DISCORD_WEBHOOK_URL # None
    /\ last.outcome = "threw"

\* the property `field` of the object handed to sanitizeSettings
InputField(field) ==
    IF sanitized.input = None THEN None
    ELSE IF field \in {"enabled", "cooldownHours"} THEN sanitized.input[1][field]
    ELSE IF sanitized.input[1].rules = None THEN None
    ELSE sanitized.input[1].rules[1][field]

OutputField(settings, field) ==
    IF field \in {"enabled", "cooldownHours"} THEN settings[field]
    ELSE settings.rules[field]

DefaultOf(field) == OutputField(DEFAULT_ALERT_SETTINGS, field)

\* the property holds a number (NaN is none)
HoldsNumber(value) ==
    value # None /\ value[1].type = "number" /\ value[1].class # "NaN"

\* C11: for every input sanitizeSettings returns a result (no input is
\* rejected) with all six fields: enabled a boolean, each numeric field an
\* integer inside its range, and each field whose input is absent or not a
\* number (not a boolean, for enabled) equal to its default.
C11_SanitizedCompleteAndInRange ==
    /\ (sanitized.input # None /\ sanitized.output = None) => ENABLED Sanitize
    /\ sanitized.output # None =>
        LET out == sanitized.output[1]
        IN /\ DOMAIN out = {"enabled", "cooldownHours", "rules"}
           /\ DOMAIN out.rules = RuleFields
           /\ out.enabled \in BOOLEAN
           /\ \A f \in NumericFields :
                /\ OutputField(out, f) \in SettingRanges[f].min..SettingRanges[f].max
                /\ ~HoldsNumber(InputField(f)) => OutputField(out, f) = DefaultOf(f)
           /\ (InputField("enabled") = None \/ InputField("enabled")[1].type # "boolean")
                => out.enabled = DefaultOf("enabled")
           /\ DEFAULT_ALERT_SETTINGS =
                [enabled |-> TRUE, cooldownHours |-> 24,
                 rules |-> [noCommitDays |-> 7, prStuckDays |-> 3,
                            staleSpikeCount |-> 5, staleWindowDays |-> 7]]

\* cooldownHours 168.5 in an object that sets nothing
\* else: 168 and the defaults come back
C11_Witness ==
    /\ sanitized.output # None
    /\ InputField("cooldownHours") = Some(Num(337))
    /\ InputField("enabled") = None
    /\ InputField("noCommitDays") = None
    /\ sanitized.output[1].cooldownHours = 168
    /\ sanitized.output[1].rules.noCommitDays = 7
    /\ sanitized.output[1].enabled

\* C12: sanitizing the result of sanitizeSettings again returns the same
\* settings, field by field.
C12_SanitizeIdempotent ==
    sanitized.again # None =>
        /\ sanitized.again[1].enabled = sanitized.output[1].enabled
        /\ \A f \in NumericFields :
              OutputField(sanitized.again[1], f) = OutputField(sanitized.output[1], f)

\* an input the first pass changed in every field (enabled "yes",
\* cooldownHours 1.5, the rules far below their ranges), sanitized twice
C12_Witness ==
    /\ sanitized.again # None
    /\ InputField("enabled") = Some(Text("yes"))
    /\ InputField("cooldownHours") = Some(Num(3))
    /\ sanitized.output[1].cooldownHours = 2
    /\ \A f \in RuleFields :
          /\ HoldsNumber(InputField(f))
          /\ InputField(f) # Some(Whole(OutputField(sanitized.output[1], f)))

\* GET /api/alerts answered with an evaluation
Returned == evaluated.outcome = "returned"

\* the date of the latest commit the hosting API holds: the author's, else
\* the committer's, else none
LatestCommitDate ==
    LET commits == evaluated.activity.commits
    IN IF commits = <<>> THEN None
       ELSE IF commits[1].author # None THEN commits[1].author
       ELSE commits[1].committer

\* C13: NO_COMMITS is active iff daysSinceLastCommit is null or at least
\* noCommitDays; daysSinceLastCommit is null iff the latest commit has no
\* date (or there is no commit), and otherwise the number of whole days
\* elapsed since it, rounded down.
C13_NoCommitsActiveIff ==
    Returned =>
        LET ev == evaluated.evaluation[1]
            days == ev.metrics.daysSinceLastCommit
            age == evaluated.now - LatestCommitDate[1]
        IN /\ ev.alerts[1].id = "NO_COMMITS"
           /\ ev.alerts[1].active <=>
                (days = None \/ days[1] >= evaluated.settings.rules.noCommitDays)
           /\ ev.alerts[1].value = days
           /\ days = None <=> LatestCommitDate = None
           /\ days # None =>
                (days[1] * MS_PER_DAY <= age /\ age < (days[1] + 1) * MS_PER_DAY)

\* threshold 7 and a latest commit one millisecond short of seven days old:
\* six days, not active
C13_Witness ==
    /\ Returned
    /\ evaluated.settings.rules.noCommitDays = 7
    /\ LatestCommitDate = Some(evaluated.now - (7 * MS_PER_DAY - 1))
    /\ evaluated.evaluation[1].metrics.daysSinceLastCommit = Some(6)
    /\ ~evaluated.evaluation[1].alerts[1].active

\* the open pull requests among `pulls` idle for at least prStuckDays days
IdleOpenPulls(pulls) ==
    SelectSeq(pulls, LAMBDA pull :
        evaluated.now - pull.updated_at
            >= evaluated.settings.rules.prStuckDays * MS_PER_DAY)

\* the pull requests the loop's pages hold: the first 500 listed
ScannedPulls ==
    SubSeq(evaluated.activity.pulls, 1,
           Min(MAX_OPEN_PR_PAGES * PER_PAGE, Len(evaluated.activity.pulls)))

\* C14 as stated: the PR_STUCK value and metrics.stuckPrs equal the number of
\* open pull requests idle for at least prStuckDays days, and PR_STUCK is
\* active iff that number is greater than zero.
C14_StuckCountsAllOpenPulls ==
    Returned =>
        LET ev == evaluated.evaluation[1]
            idle == Len(IdleOpenPulls(evaluated.activity.pulls))
        IN /\ ev.alerts[2].id = "PR_STUCK"
           /\ ev.alerts[2].value = Some(idle)
           /\ ev.metrics.stuckPrs = idle
           /\ ev.alerts[2].active <=> idle > 0

\* C14 amended: the PR_STUCK value and metrics.stuckPrs equal the number of
\* pull requests idle for at least prStuckDays days among the first 500 open
\* pull requests listed oldest update first (all of them when the repository
\* has at most 500), and PR_STUCK is active iff that number is greater than
\* zero, which is iff any open pull request is that idle.
C14_StuckCountsScannedPulls ==
    Returned =>
        LET ev == evaluated.evaluation[1]
            idle == Len(IdleOpenPulls(ScannedPulls))
        IN /\ ev.alerts[2].id = "PR_STUCK"
           /\ ev.alerts[2].value = Some(idle)
           /\ ev.metrics.stuckPrs = idle
           /\ ev.alerts[2].active <=> idle > 0
           /\ ev.alerts[2].active <=> Len(IdleOpenPulls(evaluated.activity.pulls)) > 0
           /\ ev.metrics.totalOpenPrs = Len(ScannedPulls)

\* more than 500 open pull requests, every one of them idle long enough:
\* 500 are counted
C14_Witness ==
    /\ Returned
    /\ Len(evaluated.activity.pulls) > MAX_OPEN_PR_PAGES * PER_PAGE
    /\ Len(IdleOpenPulls(evaluated.activity.pulls)) = Len(evaluated.activity.pulls)
    /\ evaluated.evaluation[1].metrics.stuckPrs = MAX_OPEN_PR_PAGES * PER_PAGE
    /\ evaluated.evaluation[1].alerts[2].active

\* the issues of the hosting API that carry the stale label, are no pull
\* requests and were last updated in [from, to)
StaleUpdatedIn(from, to) ==
    Len(SelectSeq(evaluated.activity.issues, LAMBDA issue :
            /\ ~issue.pull_request
            /\ StaleLabel \in issue.labels
            /\ from <= issue.updated_at
            /\ issue.updated_at < to))

\* C15: STALE_SPIKE is active iff staleCurrentWindow >= staleSpikeCount and
\* staleCurrentWindow > stalePreviousWindow; its value is staleCurrentWindow.
C15_StaleSpikeActiveIff ==
    Returned =>
        LET ev == evaluated.evaluation[1]
            current == ev.metrics.staleCurrentWindow
            previous == ev.metrics.stalePreviousWindow
        IN /\ ev.alerts[3].id = "STALE_SPIKE"
           /\ ev.alerts[3].value = Some(current)
           /\ ev.alerts[3].active <=>
                (/\ current >= evaluated.settings.rules.staleSpikeCount
                 /\ current > previous)

\* a plateau: threshold 5, five stale-labelled issues updated in the last
\* seven days and five in the seven days before; not active
C15_Witness ==
    /\ Returned
    /\ evaluated.settings.rules.staleSpikeCount = 5
    /\ evaluated.settings.rules.staleWindowDays = 7
    /\ StaleUpdatedIn(evaluated.now - 7 * MS_PER_DAY, evaluated.now + 1) = 5
    /\ StaleUpdatedIn(evaluated.now - 14 * MS_PER_DAY, evaluated.now - 7 * MS_PER_DAY) = 5
    /\ evaluated.evaluation[1].metrics.staleCurrentWindow = 5
    /\ evaluated.evaluation[1].metrics.stalePreviousWindow = 5
    /\ ~evaluated.evaluation[1].alerts[3].active

\* C16: samples.stuckPullRequests has at most 8 entries (all stuck pull
\* requests when there are at most 8), each an open pull request idle for at
\* least prStuckDays days, in non-increasing order of daysSinceUpdate; an idle
\* open pull request that is not in the sample has been idle for no more
\* days than any entry of the sample.
C16_SampleSortedCappedMostIdle ==
    Returned =>
        LET ev == evaluated.evaluation[1]
            sample == ev.samples.stuckPullRequests
            inSample == {sample[k].number : k \in 1..Len(sample)}
            idle == IdleOpenPulls(evaluated.activity.pulls)
        IN /\ Len(sample) = Min(MAX_STUCK_SAMPLES, ev.metrics.stuckPrs)
           /\ MAX_STUCK_SAMPLES = 8
           /\ \A i, j \in 1..Len(sample) :
                i < j => sample[i].daysSinceUpdate >= sample[j].daysSinceUpdate
           /\ \A k \in 1..Len(sample) :
                \E i \in 1..Len(idle) :
                    /\ idle[i].number = sample[k].number
                    /\ idle[i].updated_at = sample[k].updatedAt
                    /\ sample[k].daysSinceUpdate * MS_PER_DAY
                         <= evaluated.now - idle[i].updated_at
                    /\ evaluated.now - idle[i].updated_at
                         < (sample[k].daysSinceUpdate + 1) * MS_PER_DAY
           /\ \A i \in 1..Len(idle) :
                idle[i].number \notin inSample =>
                    \A k \in 1..Len(sample) :
                        evaluated.now - idle[i].updated_at
                            < (sample[k].daysSinceUpdate + 1) * MS_PER_DAY

\* ten stuck pull requests: the sample holds eight, the first idle longer
\* than the last, and the two left out idle for fewer days than all of them
C16_Witness ==
    /\ Returned
    /\ evaluated.evaluation[1].metrics.stuckPrs = 10
    /\ LET sample == evaluated.evaluation[1].samples.stuckPullRequests
       IN /\ Len(sample) = 8
          /\ sample[1].daysSinceUpdate > sample[8].daysSinceUpdate
          /\ \E i \in 1..Len(evaluated.activity.pulls) :
                /\ evaluated.activity.pulls[i].number
                     \notin {sample[k].number : k \in 1..8}
                /\ evaluated.now - evaluated.activity.pulls[i].updated_at
                     >= evaluated.settings.rules.prStuckDays * MS_PER_DAY
                /\ evaluated.now - evaluated.activity.pulls[i].updated_at
                     < sample[8].daysSinceUpdate * MS_PER_DAY

\* C17: an evaluation holds exactly three alert states, NO_COMMITS, PR_STUCK
\* and STALE_SPIKE in that order, with severities HIGH, MEDIUM and MEDIUM;
\* activeAlerts holds exactly the active ones, each once, in that order.
C17_ThreeStatesInFixedOrder ==
    Returned =>
        LET ev == evaluated.evaluation[1]
            active == ev.activeAlerts
        IN /\ Len(ev.alerts) = 3
           /\ [i \in 1..3 |-> ev.alerts[i].id] = <<"NO_COMMITS", "PR_STUCK", "STALE_SPIKE">>
           /\ [i \in 1..3 |-> ev.alerts[i].severity] = <<"HIGH", "MEDIUM", "MEDIUM">>
           /\ \A i \in 1..3 : ev.alerts[i].active \in BOOLEAN
           /\ Range(active) = {ev.alerts[i] : i \in {k \in 1..3 : ev.alerts[k].active}}
           /\ NoDuplicates(active)
           /\ \A i, j \in 1..Len(active) :
                i < j => \E k, l \in 1..3 :
                            k < l /\ ev.alerts[k] = active[i] /\ ev.alerts[l] = active[j]

\* the first and the third rule are active, the second is not
C17_Witness ==
    /\ Returned
    /\ idsOf(evaluated.evaluation[1].activeAlerts) = <<"NO_COMMITS", "STALE_SPIKE">>
    /\ ~evaluated.evaluation[1].alerts[2].active

\* the pages a page loop asks for when the list holds n items
PagesAsked(n, maxPages) == Min(maxPages, n \div PER_PAGE + 1)

\* a request the evaluation makes, other than the search, is rejected
RequestFails ==
    LET failing == evaluated.activity.failing
        since == evaluated.now
                   - 2 * evaluated.settings.rules.staleWindowDays * MS_PER_DAY
        sinceIssues == SelectSeq(evaluated.activity.issues,
                                 LAMBDA issue : issue.updated_at >= since)
    IN \/ failing.commits
       \/ \E page \in failing.pulls :
            page <= PagesAsked(Len(evaluated.activity.pulls), MAX_OPEN_PR_PAGES)
       \/ \E page \in failing.issues :
            page <= PagesAsked(Len(sinceIssues), MAX_STALE_SCAN_PAGES)

\* C19: when the search call fails and no other request does, the
\* evaluation is returned with staleOpenNow null, and apart from staleOpenNow
\* it equals the evaluation of the same activity with the search answered.
C19_SearchFailureNotFatal ==
    (evaluated.outcome # "none" /\ evaluated.activity.search = None /\ ~RequestFails) =>
        /\ Returned
        /\ LET ev == evaluated.evaluation[1]
               answered == evaluateRepoAlerts(parseRepo(evaluated.repo)[1], evaluated.settings,
                               [evaluated.activity EXCEPT !.search = Some(3)],
                               evaluated.now)
           IN /\ ev.metrics.staleOpenNow = None
              /\ Len(ev.alerts) = 3
              /\ answered.threw = None
              /\ answered.metrics.staleOpenNow = Some(3)
              /\ [ev EXCEPT !.metrics.staleOpenNow = Some(3)] = answered

\* the search fails on a repository with active alerts
C19_Witness ==
    /\ Returned
    /\ evaluated.activity.search = None
    /\ evaluated.evaluation[1].metrics.staleOpenNow = None
    /\ Len(evaluated.evaluation[1].activeAlerts) = 3

\* C20: when the commit request or a page request of the pull request or
\* issue loop is rejected, GET /api/alerts gets no evaluation but the error,
\* and dispatchRepoAlerts throws the error without a transport call and
\* without inserting an event.
C20_CollaboratorFailureIsFatal ==
    /\ (evaluated.outcome # "none" /\ RequestFails) =>
        /\ evaluated.outcome = "threw"
        /\ evaluated.evaluation = None
        /\ evaluated.error = Some(RequestError)
    /\ (Called /\ (\/ last.rejected.commits
                   \/ 1 \in last.rejected.pulls
                   \/ 1 \in last.rejected.issues)) =>
        /\ last.outcome = "threw"
        /\ last.error = Some(RequestError)
        /\ ~last.sent
        /\ NothingDone

\* a forced dispatch with an endpoint to send to, while the first page of
\* issues is rejected
C20_Witness ==
    /\ Called /\ last.force
    /\ 1 \in last.rejected.issues
    /\ resolveDeliveryTarget(last.requested, env) # None
    /\ last.outcome = "threw"
    /\ alert_deliveries = <<>>

\* the positions of a batch run's results that satisfy Test
ResultsWhere(Test(_)) ==
    {i \in 1..Len(cron.results) : Test(cron.results[i])}

\* C18: in a batch run a failure for one repository never stops the others:
\* while the loop runs, the results so far and the repositories still to do
\* make up the list; the response holds one result per repository, in the
\* list's order, with the error text of its failure (invalid format, request
\* failed, no endpoint configured, delivery failed); processed is the
\* number of repositories, failed the number of results with an error and
\* sent the number of results with sent = true.
C18_BatchRunProcessesEveryRepo ==
    /\ cron.outcome = "running" =>
        /\ Len(cron.results) + Len(cron.pending) = Len(cron.repos)
        /\ \A i \in 1..Len(cron.pending) :
              cron.pending[i] = cron.repos[Len(cron.results) + i]
    /\ cron.outcome \in {"running", "done"} =>
        /\ Len(cron.inputs) = Len(cron.results)
        /\ \A i \in 1..Len(cron.results) :
            /\ cron.results[i].repo = cron.repos[i]
            /\ cron.results[i].ok <=> cron.results[i].error = None
            /\ cron.results[i].sent => cron.results[i].ok
            /\ parseRepo(cron.repos[i]) = None
                  <=> cron.results[i].error = Some(InvalidRepoError)
            /\ (parseRepo(cron.repos[i]) # None /\ cron.inputs[i].failing.commits)
                  => cron.results[i].error = Some(RequestError)
            /\ cron.results[i].error = Some(RequestError)
                  => cron.inputs[i].failing.commits
            /\ cron.results[i].error = Some(NotConfiguredError) => NoEndpoint
            /\ cron.results[i].error = Some("Webhook delivery failed")
                  => ~cron.inputs[i].responseOk
            /\ cron.results[i].error \in
                  {None, Some(InvalidRepoError), Some(RequestError),
                   Some(NotConfiguredError), Some("Webhook delivery failed")}
    /\ cron.outcome = "done" =>
        /\ Len(cron.results) = Len(cron.repos)
        /\ cron.processed = Len(cron.repos)
        /\ cron.failed = Cardinality(ResultsWhere(LAMBDA result : result.error # None))
        /\ cron.sent = Cardinality(ResultsWhere(LAMBDA result : result.sent))
        /\ Len(alert_deliveries) >= Len(cron.before) + cron.sent

\* a scheduled run over three repositories: the first has an invalid format,
\* the second's commit request is rejected, the third's alerts are sent
C18_Witness ==
    /\ cron.outcome = "done"
    /\ cron.processed = 3
    /\ cron.failed = 2
    /\ cron.sent = 1
    /\ cron.results[1].error = Some(InvalidRepoError)
    /\ cron.results[2].error = Some(RequestError)
    /\ cron.results[3].sent

\* the issues the hosting API lists for the evaluation: those updated since
\* the start of the previous window
SinceIssues ==
    SelectSeq(evaluated.activity.issues, LAMBDA issue :
        issue.updated_at >= evaluated.now
            - 2 * evaluated.settings.rules.staleWindowDays * MS_PER_DAY)

\* no request follows a page request that was rejected or returned fewer
\* than PER_PAGE items
StopsAfterShortPage(asked) ==
    \A i \in 1..Len(asked) : i < Len(asked) => asked[i] = Some(PER_PAGE)

\* C21: an evaluation, returned or rejected, made at most 5 page requests
\* for open pull requests and at most 10 for issues, and no page request of
\* a loop after the first page that returned fewer than 100 items; when it
\* returned, each loop asked for the pages up to the first short one, or up
\* to its ceiling.
C21_PageLoopsAreBounded ==
    evaluated.outcome # "none" =>
        /\ MAX_OPEN_PR_PAGES = 5 /\ MAX_STALE_SCAN_PAGES = 10 /\ PER_PAGE = 100
        /\ Len(evaluated.requests.pulls) <= MAX_OPEN_PR_PAGES
        /\ Len(evaluated.requests.issues) <= MAX_STALE_SCAN_PAGES
        /\ StopsAfterShortPage(evaluated.requests.pulls)
        /\ StopsAfterShortPage(evaluated.requests.issues)
        /\ Returned =>
            /\ Len(evaluated.requests.pulls)
                 = PagesAsked(Len(evaluated.activity.pulls), MAX_OPEN_PR_PAGES)
            /\ Len(evaluated.requests.issues)
                 = PagesAsked(Len(SinceIssues), MAX_STALE_SCAN_PAGES)

\* a repository with more open pull requests than five pages hold and more
\* recently updated issues than ten pages hold: both loops end at their
\* ceiling
C21_Witness ==
    /\ Returned
    /\ Len(evaluated.activity.pulls) > MAX_OPEN_PR_PAGES * PER_PAGE
    /\ Len(SinceIssues) > MAX_STALE_SCAN_PAGES * PER_PAGE
    /\ Len(evaluated.requests.pulls) = 5
    /\ Len(evaluated.requests.issues) = 10

\* overlapping call c has sent rule, not forced, for repo
SentUnforced(c, repo, rule) ==
    /\ overlapping[c].pc = "done"
    /\ overlapping[c].repo = repo
    /\ ~overlapping[c].force
    /\ overlapping[c].result[1].sent
    /\ rule \in Range(overlapping[c].result[1].sentAlerts)

\* the positions of the history's events for (repo, rule) sent at `at`
EventsAt(repo, rule, at) ==
    {i \in 1..Len(alert_deliveries) :
        /\ alert_deliveries[i].repo = repo
        /\ alert_deliveries[i].ruleId = rule
        /\ alert_deliveries[i].sentAt = at}

\* C22: two calls for one repository, neither forced, that both sent a rule
\* less than cooldownHours apart each read the delivery history before the
\* other wrote to it, and the history holds an event of each of them for
\* the rule: two events for one (repository, rule) pair inside the cooldown.
C22_OverlappingCallsBothSend ==
    \A c, d \in CallIds : \A repo \in Repos : \A k \in 1..Len(AlertIds) :
        LET rule == AlertIds[k]
            cooldownMs == cooldownMsOf(getAlertSettings(alert_settings, repo))
        IN (/\ c # d
            /\ SentUnforced(c, repo, rule)
            /\ SentUnforced(d, repo, rule)
            /\ overlapping[c].now <= overlapping[d].now
            /\ overlapping[d].now - overlapping[c].now < cooldownMs)
           => /\ ~RecentlySent(overlapping[d].before, repo, rule, overlapping[d].now,
                               getAlertSettings(alert_settings, repo).cooldownHours)
              /\ \E i \in EventsAt(repo, rule, overlapping[c].now) :
                 \E j \in EventsAt(repo, rule, overlapping[d].now) :
                    /\ i # j
                    /\ ~alert_deliveries[i].force /\ ~alert_deliveries[j].force

\* two calls that read the same history, found the same rule sendable and
\* both sent it: the history holds two events for the pair, neither forced,
\* less than cooldownHours apart
C22_Witness ==
    /\ \E c, d \in CallIds :
        /\ c # d
        /\ overlapping[c].pc = "done" /\ overlapping[d].pc = "done"
        /\ overlapping[c].before = overlapping[d].before
        /\ SentUnforced(c, "acme/api", "NO_COMMITS")
        /\ SentUnforced(d, "acme/api", "NO_COMMITS")
    /\ \E i, j \in 1..Len(alert_deliveries) :
        /\ i < j
        /\ alert_deliveries[i].repo = "acme/api"
        /\ alert_deliveries[j].repo = "acme/api"
        /\ alert_deliveries[i].ruleId = "NO_COMMITS"
        /\ alert_deliveries[j].ruleId = "NO_COMMITS"
        /\ ~alert_deliveries[i].force /\ ~alert_deliveries[j].force
        /\ alert_deliveries[j].sentAt - alert_deliveries[i].sentAt
             < cooldownMsOf(getAlertSettings(alert_settings, "acme/api"))

\* the item of a getStaleAction call carries a protected label
Protected(item, config) == item.labels \cap config.ignoreLabels # {}

\* C23: getStaleAction returns CLOSE only for an item that is stale already
\* and MARK_STALE only for one that is not, and NONE for every item with a
\* protected label; without one, an item that is not stale and idle for at
\* least staleThresholdDays days gets MARK_STALE and a stale item idle for at
\* least closeThresholdDays days gets CLOSE.  In a scan no issue is both
\* given the stale label and closed: an issue closed carried the label when
\* the scan listed it.
C23_StaleActionNeverSkipsAStage ==
    /\ stale.outcome = "action" =>
        LET item == stale.item
            config == stale.config
            type == stale.action.type
            idle == stale.now - item.updatedAt
        IN /\ type \in {"NONE", "MARK_STALE", "CLOSE"}
           /\ type = "CLOSE" => item.isStale
           /\ type = "MARK_STALE" => ~item.isStale
           /\ Protected(item, config) => type = "NONE"
           /\ (/\ ~Protected(item, config)
               /\ ~item.isStale
               /\ idle >= config.staleThresholdDays * MS_PER_DAY) => type = "MARK_STALE"
           /\ (/\ ~Protected(item, config)
               /\ item.isStale
               /\ idle >= config.closeThresholdDays * MS_PER_DAY) => type = "CLOSE"
           /\ (/\ ~item.isStale
               /\ idle < config.staleThresholdDays * MS_PER_DAY) => type = "NONE"
           /\ (/\ item.isStale
               /\ idle < config.closeThresholdDays * MS_PER_DAY) => type = "NONE"
    /\ stale.outcome = "scanned" =>
        \A i \in 1..Len(stale.turns) :
            LET turn == stale.turns[i]
                before == stale.issues[i].labels
                label == stale.config.staleLabel
            IN /\ turn.stateAfter = "closed" =>
                    (label \in before /\ turn.labelsAfter = before)
               /\ (label \in turn.labelsAfter /\ label \notin before) =>
                    turn.stateAfter = "open"
               /\ turn.action = "MARK_STALE" => label \notin before
               /\ turn.action = "CLOSE" <=> turn.stateAfter = "closed"

\* a scan that marks its first issue, idle for longer than both thresholds
\* together, and leaves it open, and closes its second, stale already
C23_Witness ==
    /\ stale.outcome = "scanned"
    /\ stale.now - stale.issues[1].updated_at
         >= (stale.config.staleThresholdDays + stale.config.closeThresholdDays) * MS_PER_DAY
    /\ stale.turns[1].action = "MARK_STALE"
    /\ stale.turns[1].stateAfter = "open"
    /\ StaleLabel \in stale.turns[1].labelsAfter
    /\ stale.turns[2].action = "CLOSE"
    /\ stale.results = <<[number |-> 1, action |-> "marked stale"],
                         [number |-> 2, action |-> "closed"]>>

\* overlapping call c was not forced and returned after the skip checks and
\* the target resolution: with the cooldown reason, or after sending
Classified(c) ==
    /\ overlapping[c].pc = "done"
    /\ ~overlapping[c].force
    /\ overlapping[c].result[1].outcome = "returned"
    /\ overlapping[c].result[1].reason \notin {DisabledReason, NoActiveReason}

\* the positions of the events of `history` for (repo, rule)
EventsFor(history, repo, rule) ==
    {i \in 1..Len(history) : history[i].repo = repo /\ history[i].ruleId = rule}

\* C24: in a call that was not forced and passed the skip checks, every
\* active rule is either suppressed or sent, never both; it is suppressed
\* iff the history the call read holds an event for the same repository and
\* rule and the latest of them is younger than cooldownHours.
C24_SuppressedIffLastEventInCooldown ==
    \A c \in CallIds :
        Classified(c) =>
            LET call == overlapping[c]
                active == Range(call.result[1].active)
                suppressed == Range(call.result[1].suppressed)
                sent == Range(call.result[1].sentAlerts)
            IN /\ suppressed \cup sent = active
               /\ suppressed \cap sent = {}
               /\ NoDuplicates(call.result[1].suppressed)
               /\ NoDuplicates(call.result[1].sentAlerts)
               /\ \A rule \in active :
                    LET events == EventsFor(call.before, call.repo, rule)
                    IN rule \in suppressed <=>
                        /\ events # {}
                        /\ \E i \in events :
                            /\ \A j \in events :
                                 call.before[i].sentAt >= call.before[j].sentAt
                            /\ call.now - call.before[i].sentAt
                                 < call.settings.cooldownHours * MS_PER_HOUR

\* a call that suppresses NO_COMMITS, sent less than cooldownHours before,
\* and sends the two other rules, which the history holds no event for
C24_Witness ==
    \E c \in CallIds :
        /\ Classified(c)
        /\ overlapping[c].result[1].sent
        /\ overlapping[c].result[1].suppressed = <<"NO_COMMITS">>
        /\ overlapping[c].result[1].sentAlerts = <<"PR_STUCK", "STALE_SPIKE">>
        /\ EventsFor(overlapping[c].before, overlapping[c].repo, "NO_COMMITS") # {}
        /\ EventsFor(overlapping[c].before, overlapping[c].repo, "PR_STUCK") = {}

\* the scanned pull requests that are no drafts and idle for at least
\* prStuckDays days
IdleNonDraftPulls ==
    SelectSeq(IdleOpenPulls(ScannedPulls), LAMBDA pull : ~pull.draft)

\* C25: the stuck count is the number of scanned open pull requests that are
\* no drafts and idle for at least prStuckDays days, and no entry of the
\* stuck sample is a draft.
C25_DraftsNeverCountAsStuck ==
    Returned =>
        LET ev == evaluated.evaluation[1]
            sample == ev.samples.stuckPullRequests
        IN /\ ev.metrics.stuckPrs = Len(IdleNonDraftPulls)
           /\ ev.alerts[2].value = Some(Len(IdleNonDraftPulls))
           /\ \A k \in 1..Len(sample) :
                \A i \in 1..Len(evaluated.activity.pulls) :
                    evaluated.activity.pulls[i].number = sample[k].number
                        => ~evaluated.activity.pulls[i].draft

\* the issues the loop's pages hold: the first 1000 listed
ScannedIssues ==
    SubSeq(SinceIssues, 1, Min(MAX_STALE_SCAN_PAGES * PER_PAGE, Len(SinceIssues)))

\* the scanned issues that carry the stale label and are no pull requests
CountedIssues ==
    SelectSeq(ScannedIssues, LAMBDA issue :
        ~issue.pull_request /\ StaleLabel \in issue.labels)

\* C26: staleCurrentWindow is the number of scanned issues that carry the
\* stale label, are no pull requests and were updated within the last
\* staleWindowDays days; stalePreviousWindow the number of those updated
\* within the staleWindowDays days before that; an issue is counted in at
\* most one of the two, and one updated earlier in neither.
C26_WindowCountsAreDisjoint ==
    Returned =>
        LET ev == evaluated.evaluation[1]
            window == evaluated.settings.rules.staleWindowDays * MS_PER_DAY
            inCurrent == {i \in 1..Len(CountedIssues) :
                            CountedIssues[i].updated_at >= evaluated.now - window}
            inPrevious == {i \in 1..Len(CountedIssues) :
                            /\ CountedIssues[i].updated_at < evaluated.now - window
                            /\ CountedIssues[i].updated_at >= evaluated.now - 2 * window}
        IN /\ ev.metrics.staleCurrentWindow = Cardinality(inCurrent)
           /\ ev.metrics.stalePreviousWindow = Cardinality(inPrevious)
           /\ inCurrent \cap inPrevious = {}
           /\ ev.metrics.staleCurrentWindow + ev.metrics.stalePreviousWindow
                <= Len(CountedIssues)

\* five issues counted in the current window and four in the previous one,
\* next to a pull request with the label, an issue without it, and a
\* labelled issue updated before both windows
C26_Witness ==
    /\ Returned
    /\ evaluated.evaluation[1].metrics.staleCurrentWindow = 5
    /\ evaluated.evaluation[1].metrics.stalePreviousWindow = 4
    /\ \E i \in 1..Len(ScannedIssues) :
        ScannedIssues[i].pull_request /\ StaleLabel \in ScannedIssues[i].labels
    /\ \E i \in 1..Len(ScannedIssues) : StaleLabel \notin ScannedIssues[i].labels
    /\ \E i \in 1..Len(evaluated.activity.issues) :
        /\ StaleLabel \in evaluated.activity.issues[i].labels
        /\ ~evaluated.activity.issues[i].pull_request
        /\ evaluated.activity.issues[i].updated_at
             < evaluated.now - 2 * evaluated.settings.rules.staleWindowDays * MS_PER_DAY

\* C27: a transport call always ends, whether or not the endpoint answers:
\* a call that waits for the endpoint gets past the wait, and a call whose
\* transport call ended without an answer that is ok has thrown and inserted
\* no event.
C27_TransportCallAlwaysEnds ==
    \A c \in CallIds :
        (overlapping[c].pc = "sending")
            ~> (\/ overlapping[c].pc = "inserting"
                \/ /\ overlapping[c].pc = "done"
                   /\ overlapping[c].result[1].outcome = "threw"
                   /\ overlapping[c].result[1].events = <<>>)

\* the channel asked for resolves to no target
TargetMissing ==
    IF last.requested = "auto" THEN NoEndpoint
    ELSE EndpointOf(last.requested) = None

\* every rule the evaluation found active has an event of the repository
\* less than cooldownHours old
AllActiveInCooldown ==
    \A i \in 1..Len(last.active) :
        RecentlySent(last.before, last.repo, last.active[i], last.now,
                     last.settings.cooldownHours)

SkippedWith(reason) ==
    /\ last.outcome = "returned"
    /\ ~last.sent
    /\ last.reason = reason
    /\ NothingDone

\* C28: the checks of a dispatch come in the order disabled (not forced), no
\* active alert, target resolution, cooldown: a disabled call that is not
\* forced is skipped as disabled whatever is active or configured; otherwise
\* a call with nothing active is skipped as such whatever is configured;
\* otherwise a call without a target throws the configuration error even
\* when every active rule is inside its cooldown; and only a call with a
\* target is skipped for cooldown.
C28_ChecksInFixedOrder ==
    Called =>
        IF ~last.settings.enabled /\ ~last.force
        THEN SkippedWith(DisabledReason)
        ELSE IF last.active = <<>>
        THEN SkippedWith(NoActiveReason)
        ELSE IF TargetMissing
        THEN /\ last.outcome = "threw"
             /\ last.error = Some(NotConfiguredError)
             /\ NothingDone
        ELSE IF ~last.force /\ AllActiveInCooldown
        THEN SkippedWith(CooldownReason)
        ELSE last.sends # <<>>

\* an enabled call asks for a channel that is not configured while every
\* rule active for the repository was sent within the cooldown, and throws
C28_Witness ==
    /\ ReachedResolution /\ ~last.force
    /\ TargetMissing
    /\ AllActiveInCooldown
    /\ last.outcome = "threw"

\* the history the call found holds an event of a forced send for
\* (repository, rule) less than cooldownHours old
ForcedRecently(rule) ==
    \E i \in 1..Len(last.before) :
        /\ last.before[i].repo = last.repo
        /\ last.before[i].ruleId = rule
        /\ last.before[i].force
        /\ last.now - last.before[i].sentAt < last.settings.cooldownHours * MS_PER_HOUR

\* the rules named in the messages the call handed to the transport
RulesHandedOver ==
    UNION {Range(last.sends[i].message.rules) : i \in 1..Len(last.sends)}

\* C29: the event of a forced send counts toward cooldown: a call that is not
\* forced and finds a rule active whose last forced send for the repository
\* is less than cooldownHours old neither sends that rule nor writes an event
\* for it, and a call that returns after the cooldown loop lists the rule as
\* suppressed.
C29_ForcedEventCountsTowardCooldown ==
    (Called /\ ~last.force) =>
        \A rule \in Range(last.active) :
            ForcedRecently(rule) =>
                /\ rule \notin RulesHandedOver
                /\ rule \notin Range(last.sentAlerts)
                /\ \A i \in Len(last.before) + 1 .. Len(alert_deliveries) :
                        alert_deliveries[i].ruleId # rule
                /\ (last.outcome = "returned" /\ last.settings.enabled) =>
                        rule \in Range(last.suppressed)

\* a call that is not forced follows a forced send of an active rule within
\* the cooldown and is skipped with that rule suppressed
C29_Witness ==
    /\ Called /\ ~last.force
    /\ last.outcome = "returned"
    /\ \E rule \in Range(last.active) :
            ForcedRecently(rule) /\ rule \in Range(last.suppressed)

SettingFields == NumericFields \cup {"enabled"}

\* the value a settings document holds for a field
StoredValue(doc, field) ==
    IF field = "enabled" THEN doc.enabled
    ELSE IF field = "cooldownHours" THEN doc.cooldownHours
    ELSE doc.rules[1][field]

\* the request body has the field, at the top level or inside rules
Supplied(input, field) ==
    IF field = "enabled" THEN input.enabled # None
    ELSE IF field = "cooldownHours" THEN input.cooldownHours # None
    ELSE input.rules # None /\ input.rules[1][field] # None

\* the document has a boolean for enabled and, for every numeric field, a
\* whole number inside the field's range
FullyPopulated(doc) ==
    /\ \E b \in BOOLEAN : doc.enabled = Some(Bool(b))
    /\ doc.rules # None
    /\ \A f \in NumericFields :
          \E n \in SettingRanges[f].min .. SettingRanges[f].max :
              StoredValue(doc, f) = Some(Whole(n))

\* C30: every document the saves leave in the settings collection is fully
\* populated and inside the ranges, and so are the settings a save returns,
\* which are the ones it stored; a save over an existing document leaves
\* every field the body does not supply at the value the document had;
\* createdAt is the time of the first save of the repository and updatedAt
\* the time of the last.
C30_SaveKeepsSettingsValidAndMerges ==
    /\ \A repo \in Repos :
          alert_settings[repo] # None => FullyPopulated(alert_settings[repo][1])
    /\ saved.outcome # "none" =>
          LET doc == alert_settings[saved.repo][1]
          IN /\ alert_settings[saved.repo] # None
             /\ FullyPopulated(settingsObject(saved.settings)[1])
             /\ \A f \in SettingFields :
                    StoredValue(doc, f) = StoredValue(settingsObject(saved.settings)[1], f)
             /\ saved.before # None =>
                    \A f \in SettingFields :
                        ~Supplied(saved.input, f) =>
                            StoredValue(doc, f) = StoredValue(saved.before[1], f)
             /\ doc.createdAt = IF saved.before = None THEN saved.now
                                ELSE saved.before[1].createdAt
             /\ doc.updatedAt = saved.now

\* a later save supplies some of the rules only, over a document whose other
\* fields are not the defaults
C30_Witness ==
    /\ saved.outcome # "none"
    /\ saved.before # None
    /\ saved.input.enabled = None /\ saved.input.cooldownHours = None
    /\ saved.input.rules # None
    /\ saved.before[1].enabled = Some(Bool(FALSE))
    /\ saved.before[1].cooldownHours # Some(Whole(DEFAULT_ALERT_SETTINGS.cooldownHours))
    /\ \E f \in RuleFields :
          /\ ~Supplied(saved.input, f)
          /\ StoredValue(saved.before[1], f) # Some(Whole(DEFAULT_ALERT_SETTINGS.rules[f]))
    /\ \E f \in RuleFields :
          /\ Supplied(saved.input, f)
          /\ StoredValue(alert_settings[saved.repo][1], f) # StoredValue(saved.before[1], f)
    /\ alert_settings[saved.repo][1].createdAt < alert_settings[saved.repo][1].updatedAt

=============================================================================
